---------------------------- MODULE Spec2Model ----------------------------
(***************************************************************************)
(* Model of src/app.py: the HAR link extractor's URL pipeline.             *)
(*                                                                         *)
(*   clean_url                  normalises one raw candidate string        *)
(*   extract_all_urls_from_har  scans a capture document for candidates    *)
(*   filter_urls                normalises, dedups, filters and sorts      *)
(*   the Streamlit handlers     Extract, Re-apply Filters, Clear All       *)
(*                                                                         *)
(* A Python str is modelled as the sequence of its Unicode code points     *)
(* (naturals): "http" is <<104, 116, 116, 112>>.  Str(<<"h","t","t","p">>) *)
(* writes such a sequence from one-character strings, Ch("/") one code.    *)
(*                                                                         *)
(* A value that a function of the source keeps in a local variable and     *)
(* reads several times is passed on as a parameter of a helper operator.   *)
(***************************************************************************)
EXTENDS Integers, Sequences, FiniteSets, TLC

(***************************************************************************)
(* Characters                                                              *)
(***************************************************************************)

\* The printable ASCII characters in code-point order, 32 (space) .. 126 (~);
\* "GRAVE" stands for the grave accent, code 96.
AsciiTable ==
  << " ", "!", "\"", "#", "$", "%", "&", "'", "(", ")", "*", "+",
     ",", "-", ".", "/", "0", "1", "2", "3", "4", "5", "6", "7",
     "8", "9", ":", ";", "<", "=", ">", "?", "@", "A", "B", "C",
     "D", "E", "F", "G", "H", "I", "J", "K", "L", "M", "N", "O",
     "P", "Q", "R", "S", "T", "U", "V", "W", "X", "Y", "Z", "[",
     "\\", "]", "^", "_", "GRAVE", "a", "b", "c", "d", "e", "f", "g",
     "h", "i", "j", "k", "l", "m", "n", "o", "p", "q", "r", "s",
     "t", "u", "v", "w", "x", "y", "z", "{", "|", "}", "~" >>

OrdOf ==
  [c \in {AsciiTable[i] : i \in 1..Len(AsciiTable)} |->
     31 + (CHOOSE i \in 1..Len(AsciiTable) : AsciiTable[i] = c)]

\* ord(c) of a printable ASCII character
Ch(c) == OrdOf[c]

\* the str made of the characters cs
Str(cs) == [i \in 1..Len(cs) |-> Ch(cs[i])]

\* the set of code points of the characters cs
Chars(cs) == {Ch(cs[i]) : i \in 1..Len(cs)}

\* str.isspace() of one character; also the regex class \s on str patterns
IsSpace(c) ==
  \/ c \in 9..13
  \/ c \in 28..32
  \/ c \in {133, 160, 5760, 8232, 8233, 8239, 8287, 12288}
  \/ c \in 8192..8202

\* the code points str.lower() changes into one other code point, in runs
\* <<first, last, step, delta>>: c goes to c + delta (Unicode 14.0.0)
LowerRuns ==
  { <<65, 90, 1, 32>>, <<192, 214, 1, 32>>, <<216, 222, 1, 32>>,
    <<256, 302, 2, 1>>, <<306, 310, 2, 1>>, <<313, 327, 2, 1>>,
    <<330, 374, 2, 1>>, <<376, 376, 1, -121>>, <<377, 381, 2, 1>>,
    <<385, 385, 1, 210>>, <<386, 388, 2, 1>>, <<390, 390, 1, 206>>,
    <<391, 391, 1, 1>>, <<393, 394, 1, 205>>, <<395, 395, 1, 1>>,
    <<398, 398, 1, 79>>, <<399, 399, 1, 202>>, <<400, 400, 1, 203>>,
    <<401, 401, 1, 1>>, <<403, 403, 1, 205>>, <<404, 404, 1, 207>>,
    <<406, 406, 1, 211>>, <<407, 407, 1, 209>>, <<408, 408, 1, 1>>,
    <<412, 412, 1, 211>>, <<413, 413, 1, 213>>, <<415, 415, 1, 214>>,
    <<416, 420, 2, 1>>, <<422, 422, 1, 218>>, <<423, 423, 1, 1>>,
    <<425, 425, 1, 218>>, <<428, 428, 1, 1>>, <<430, 430, 1, 218>>,
    <<431, 431, 1, 1>>, <<433, 434, 1, 217>>, <<435, 437, 2, 1>>,
    <<439, 439, 1, 219>>, <<440, 440, 1, 1>>, <<444, 444, 1, 1>>,
    <<452, 452, 1, 2>>, <<453, 453, 1, 1>>, <<455, 455, 1, 2>>,
    <<456, 456, 1, 1>>, <<458, 458, 1, 2>>, <<459, 475, 2, 1>>,
    <<478, 494, 2, 1>>, <<497, 497, 1, 2>>, <<498, 500, 2, 1>>,
    <<502, 502, 1, -97>>, <<503, 503, 1, -56>>, <<504, 542, 2, 1>>,
    <<544, 544, 1, -130>>, <<546, 562, 2, 1>>, <<570, 570, 1, 10795>>,
    <<571, 571, 1, 1>>, <<573, 573, 1, -163>>, <<574, 574, 1, 10792>>,
    <<577, 577, 1, 1>>, <<579, 579, 1, -195>>, <<580, 580, 1, 69>>,
    <<581, 581, 1, 71>>, <<582, 590, 2, 1>>, <<880, 882, 2, 1>>,
    <<886, 886, 1, 1>>, <<895, 895, 1, 116>>, <<902, 902, 1, 38>>,
    <<904, 906, 1, 37>>, <<908, 908, 1, 64>>, <<910, 911, 1, 63>>,
    <<913, 929, 1, 32>>, <<931, 939, 1, 32>>, <<975, 975, 1, 8>>,
    <<984, 1006, 2, 1>>, <<1012, 1012, 1, -60>>, <<1015, 1015, 1, 1>>,
    <<1017, 1017, 1, -7>>, <<1018, 1018, 1, 1>>, <<1021, 1023, 1, -130>>,
    <<1024, 1039, 1, 80>>, <<1040, 1071, 1, 32>>, <<1120, 1152, 2, 1>>,
    <<1162, 1214, 2, 1>>, <<1216, 1216, 1, 15>>, <<1217, 1229, 2, 1>>,
    <<1232, 1326, 2, 1>>, <<1329, 1366, 1, 48>>, <<4256, 4293, 1, 7264>>,
    <<4295, 4295, 1, 7264>>, <<4301, 4301, 1, 7264>>,
    <<5024, 5103, 1, 38864>>, <<5104, 5109, 1, 8>>, <<7312, 7354, 1, -3008>>,
    <<7357, 7359, 1, -3008>>, <<7680, 7828, 2, 1>>, <<7838, 7838, 1, -7615>>,
    <<7840, 7934, 2, 1>>, <<7944, 7951, 1, -8>>, <<7960, 7965, 1, -8>>,
    <<7976, 7983, 1, -8>>, <<7992, 7999, 1, -8>>, <<8008, 8013, 1, -8>>,
    <<8025, 8031, 2, -8>>, <<8040, 8047, 1, -8>>, <<8072, 8079, 1, -8>>,
    <<8088, 8095, 1, -8>>, <<8104, 8111, 1, -8>>, <<8120, 8121, 1, -8>>,
    <<8122, 8123, 1, -74>>, <<8124, 8124, 1, -9>>, <<8136, 8139, 1, -86>>,
    <<8140, 8140, 1, -9>>, <<8152, 8153, 1, -8>>, <<8154, 8155, 1, -100>>,
    <<8168, 8169, 1, -8>>, <<8170, 8171, 1, -112>>, <<8172, 8172, 1, -7>>,
    <<8184, 8185, 1, -128>>, <<8186, 8187, 1, -126>>, <<8188, 8188, 1, -9>>,
    <<8486, 8486, 1, -7517>>, <<8490, 8490, 1, -8383>>,
    <<8491, 8491, 1, -8262>>, <<8498, 8498, 1, 28>>, <<8544, 8559, 1, 16>>,
    <<8579, 8579, 1, 1>>, <<9398, 9423, 1, 26>>, <<11264, 11311, 1, 48>>,
    <<11360, 11360, 1, 1>>, <<11362, 11362, 1, -10743>>,
    <<11363, 11363, 1, -3814>>, <<11364, 11364, 1, -10727>>,
    <<11367, 11371, 2, 1>>, <<11373, 11373, 1, -10780>>,
    <<11374, 11374, 1, -10749>>, <<11375, 11375, 1, -10783>>,
    <<11376, 11376, 1, -10782>>, <<11378, 11378, 1, 1>>,
    <<11381, 11381, 1, 1>>, <<11390, 11391, 1, -10815>>,
    <<11392, 11490, 2, 1>>, <<11499, 11501, 2, 1>>, <<11506, 11506, 1, 1>>,
    <<42560, 42604, 2, 1>>, <<42624, 42650, 2, 1>>, <<42786, 42798, 2, 1>>,
    <<42802, 42862, 2, 1>>, <<42873, 42875, 2, 1>>,
    <<42877, 42877, 1, -35332>>, <<42878, 42886, 2, 1>>,
    <<42891, 42891, 1, 1>>, <<42893, 42893, 1, -42280>>,
    <<42896, 42898, 2, 1>>, <<42902, 42920, 2, 1>>,
    <<42922, 42922, 1, -42308>>, <<42923, 42923, 1, -42319>>,
    <<42924, 42924, 1, -42315>>, <<42925, 42925, 1, -42305>>,
    <<42926, 42926, 1, -42308>>, <<42928, 42928, 1, -42258>>,
    <<42929, 42929, 1, -42282>>, <<42930, 42930, 1, -42261>>,
    <<42931, 42931, 1, 928>>, <<42932, 42946, 2, 1>>,
    <<42948, 42948, 1, -48>>, <<42949, 42949, 1, -42307>>,
    <<42950, 42950, 1, -35384>>, <<42951, 42953, 2, 1>>,
    <<42960, 42960, 1, 1>>, <<42966, 42968, 2, 1>>, <<42997, 42997, 1, 1>>,
    <<65313, 65338, 1, 32>>, <<66560, 66599, 1, 40>>,
    <<66736, 66771, 1, 40>>, <<66928, 66938, 1, 39>>,
    <<66940, 66954, 1, 39>>, <<66956, 66962, 1, 39>>,
    <<66964, 66965, 1, 39>>, <<68736, 68786, 1, 64>>,
    <<71840, 71871, 1, 32>>, <<93760, 93791, 1, 32>>,
    <<125184, 125217, 1, 34>> }

\* str.lower() of the one-character str chr(c), a str: one code point, or
\* the two code points of U+0130 (capital I with a dot above)
LowerCh(c) ==
  IF c \in 65..90 THEN <<c + 32>>
  ELSE IF c < 128 THEN <<c>>
  ELSE IF c = 304 THEN <<105, 775>>
  ELSE IF \E r \in LowerRuns :
            r[1] <= c /\ c <= r[2] /\ (c - r[1]) % r[3] = 0
  THEN <<c + (CHOOSE r \in LowerRuns :
                r[1] <= c /\ c <= r[2] /\ (c - r[1]) % r[3] = 0)[4]>>
  ELSE <<c>>

\* c is in one of the ranges <<first, last>>
InRanges(c, ranges) == \E r \in ranges : r[1] <= c /\ c <= r[2]

\* the case-ignorable code points, in ranges: str.lower() skips them on
\* both sides of a capital sigma
CaseIgnorable ==
  { <<39, 39>>, <<46, 46>>, <<58, 58>>, <<94, 94>>, <<96, 96>>, <<168, 168>>,
    <<173, 173>>, <<175, 175>>, <<180, 180>>, <<183, 184>>, <<688, 879>>,
    <<884, 885>>, <<890, 890>>, <<900, 901>>, <<903, 903>>, <<1155, 1161>>,
    <<1369, 1369>>, <<1375, 1375>>, <<1425, 1469>>, <<1471, 1471>>,
    <<1473, 1474>>, <<1476, 1477>>, <<1479, 1479>>, <<1524, 1524>>,
    <<1536, 1541>>, <<1552, 1562>>, <<1564, 1564>>, <<1600, 1600>>,
    <<1611, 1631>>, <<1648, 1648>>, <<1750, 1757>>, <<1759, 1768>>,
    <<1770, 1773>>, <<1807, 1807>>, <<1809, 1809>>, <<1840, 1866>>,
    <<1958, 1968>>, <<2027, 2037>>, <<2042, 2042>>, <<2045, 2045>>,
    <<2070, 2093>>, <<2137, 2139>>, <<2184, 2184>>, <<2192, 2193>>,
    <<2200, 2207>>, <<2249, 2306>>, <<2362, 2362>>, <<2364, 2364>>,
    <<2369, 2376>>, <<2381, 2381>>, <<2385, 2391>>, <<2402, 2403>>,
    <<2417, 2417>>, <<2433, 2433>>, <<2492, 2492>>, <<2497, 2500>>,
    <<2509, 2509>>, <<2530, 2531>>, <<2558, 2558>>, <<2561, 2562>>,
    <<2620, 2620>>, <<2625, 2626>>, <<2631, 2632>>, <<2635, 2637>>,
    <<2641, 2641>>, <<2672, 2673>>, <<2677, 2677>>, <<2689, 2690>>,
    <<2748, 2748>>, <<2753, 2757>>, <<2759, 2760>>, <<2765, 2765>>,
    <<2786, 2787>>, <<2810, 2815>>, <<2817, 2817>>, <<2876, 2876>>,
    <<2879, 2879>>, <<2881, 2884>>, <<2893, 2893>>, <<2901, 2902>>,
    <<2914, 2915>>, <<2946, 2946>>, <<3008, 3008>>, <<3021, 3021>>,
    <<3072, 3072>>, <<3076, 3076>>, <<3132, 3132>>, <<3134, 3136>>,
    <<3142, 3144>>, <<3146, 3149>>, <<3157, 3158>>, <<3170, 3171>>,
    <<3201, 3201>>, <<3260, 3260>>, <<3263, 3263>>, <<3270, 3270>>,
    <<3276, 3277>>, <<3298, 3299>>, <<3328, 3329>>, <<3387, 3388>>,
    <<3393, 3396>>, <<3405, 3405>>, <<3426, 3427>>, <<3457, 3457>>,
    <<3530, 3530>>, <<3538, 3540>>, <<3542, 3542>>, <<3633, 3633>>,
    <<3636, 3642>>, <<3654, 3662>>, <<3761, 3761>>, <<3764, 3772>>,
    <<3782, 3782>>, <<3784, 3789>>, <<3864, 3865>>, <<3893, 3893>>,
    <<3895, 3895>>, <<3897, 3897>>, <<3953, 3966>>, <<3968, 3972>>,
    <<3974, 3975>>, <<3981, 3991>>, <<3993, 4028>>, <<4038, 4038>>,
    <<4141, 4144>>, <<4146, 4151>>, <<4153, 4154>>, <<4157, 4158>>,
    <<4184, 4185>>, <<4190, 4192>>, <<4209, 4212>>, <<4226, 4226>>,
    <<4229, 4230>>, <<4237, 4237>>, <<4253, 4253>>, <<4348, 4348>>,
    <<4957, 4959>>, <<5906, 5908>>, <<5938, 5939>>, <<5970, 5971>>,
    <<6002, 6003>>, <<6068, 6069>>, <<6071, 6077>>, <<6086, 6086>>,
    <<6089, 6099>>, <<6103, 6103>>, <<6109, 6109>>, <<6155, 6159>>,
    <<6211, 6211>>, <<6277, 6278>>, <<6313, 6313>>, <<6432, 6434>>,
    <<6439, 6440>>, <<6450, 6450>>, <<6457, 6459>>, <<6679, 6680>>,
    <<6683, 6683>>, <<6742, 6742>>, <<6744, 6750>>, <<6752, 6752>>,
    <<6754, 6754>>, <<6757, 6764>>, <<6771, 6780>>, <<6783, 6783>>,
    <<6823, 6823>>, <<6832, 6862>>, <<6912, 6915>>, <<6964, 6964>>,
    <<6966, 6970>>, <<6972, 6972>>, <<6978, 6978>>, <<7019, 7027>>,
    <<7040, 7041>>, <<7074, 7077>>, <<7080, 7081>>, <<7083, 7085>>,
    <<7142, 7142>>, <<7144, 7145>>, <<7149, 7149>>, <<7151, 7153>>,
    <<7212, 7219>>, <<7222, 7223>>, <<7288, 7293>>, <<7376, 7378>>,
    <<7380, 7392>>, <<7394, 7400>>, <<7405, 7405>>, <<7412, 7412>>,
    <<7416, 7417>>, <<7468, 7530>>, <<7544, 7544>>, <<7579, 7679>>,
    <<8125, 8125>>, <<8127, 8129>>, <<8141, 8143>>, <<8157, 8159>>,
    <<8173, 8175>>, <<8189, 8190>>, <<8203, 8207>>, <<8216, 8217>>,
    <<8228, 8228>>, <<8231, 8231>>, <<8234, 8238>>, <<8288, 8292>>,
    <<8294, 8303>>, <<8305, 8305>>, <<8319, 8319>>, <<8336, 8348>>,
    <<8400, 8432>>, <<11388, 11389>>, <<11503, 11505>>, <<11631, 11631>>,
    <<11647, 11647>>, <<11744, 11775>>, <<11823, 11823>>, <<12293, 12293>>,
    <<12330, 12333>>, <<12337, 12341>>, <<12347, 12347>>, <<12441, 12446>>,
    <<12540, 12542>>, <<40981, 40981>>, <<42232, 42237>>, <<42508, 42508>>,
    <<42607, 42610>>, <<42612, 42621>>, <<42623, 42623>>, <<42652, 42655>>,
    <<42736, 42737>>, <<42752, 42785>>, <<42864, 42864>>, <<42888, 42890>>,
    <<42994, 42996>>, <<43000, 43001>>, <<43010, 43010>>, <<43014, 43014>>,
    <<43019, 43019>>, <<43045, 43046>>, <<43052, 43052>>, <<43204, 43205>>,
    <<43232, 43249>>, <<43263, 43263>>, <<43302, 43309>>, <<43335, 43345>>,
    <<43392, 43394>>, <<43443, 43443>>, <<43446, 43449>>, <<43452, 43453>>,
    <<43471, 43471>>, <<43493, 43494>>, <<43561, 43566>>, <<43569, 43570>>,
    <<43573, 43574>>, <<43587, 43587>>, <<43596, 43596>>, <<43632, 43632>>,
    <<43644, 43644>>, <<43696, 43696>>, <<43698, 43700>>, <<43703, 43704>>,
    <<43710, 43711>>, <<43713, 43713>>, <<43741, 43741>>, <<43756, 43757>>,
    <<43763, 43764>>, <<43766, 43766>>, <<43867, 43871>>, <<43881, 43883>>,
    <<44005, 44005>>, <<44008, 44008>>, <<44013, 44013>>, <<64286, 64286>>,
    <<64434, 64450>>, <<65024, 65039>>, <<65043, 65043>>, <<65056, 65071>>,
    <<65106, 65106>>, <<65109, 65109>>, <<65279, 65279>>, <<65287, 65287>>,
    <<65294, 65294>>, <<65306, 65306>>, <<65342, 65342>>, <<65344, 65344>>,
    <<65392, 65392>>, <<65438, 65439>>, <<65507, 65507>>, <<65529, 65531>>,
    <<66045, 66045>>, <<66272, 66272>>, <<66422, 66426>>, <<67456, 67461>>,
    <<67463, 67504>>, <<67506, 67514>>, <<68097, 68099>>, <<68101, 68102>>,
    <<68108, 68111>>, <<68152, 68154>>, <<68159, 68159>>, <<68325, 68326>>,
    <<68900, 68903>>, <<69291, 69292>>, <<69446, 69456>>, <<69506, 69509>>,
    <<69633, 69633>>, <<69688, 69702>>, <<69744, 69744>>, <<69747, 69748>>,
    <<69759, 69761>>, <<69811, 69814>>, <<69817, 69818>>, <<69821, 69821>>,
    <<69826, 69826>>, <<69837, 69837>>, <<69888, 69890>>, <<69927, 69931>>,
    <<69933, 69940>>, <<70003, 70003>>, <<70016, 70017>>, <<70070, 70078>>,
    <<70089, 70092>>, <<70095, 70095>>, <<70191, 70193>>, <<70196, 70196>>,
    <<70198, 70199>>, <<70206, 70206>>, <<70367, 70367>>, <<70371, 70378>>,
    <<70400, 70401>>, <<70459, 70460>>, <<70464, 70464>>, <<70502, 70508>>,
    <<70512, 70516>>, <<70712, 70719>>, <<70722, 70724>>, <<70726, 70726>>,
    <<70750, 70750>>, <<70835, 70840>>, <<70842, 70842>>, <<70847, 70848>>,
    <<70850, 70851>>, <<71090, 71093>>, <<71100, 71101>>, <<71103, 71104>>,
    <<71132, 71133>>, <<71219, 71226>>, <<71229, 71229>>, <<71231, 71232>>,
    <<71339, 71339>>, <<71341, 71341>>, <<71344, 71349>>, <<71351, 71351>>,
    <<71453, 71455>>, <<71458, 71461>>, <<71463, 71467>>, <<71727, 71735>>,
    <<71737, 71738>>, <<71995, 71996>>, <<71998, 71998>>, <<72003, 72003>>,
    <<72148, 72151>>, <<72154, 72155>>, <<72160, 72160>>, <<72193, 72202>>,
    <<72243, 72248>>, <<72251, 72254>>, <<72263, 72263>>, <<72273, 72278>>,
    <<72281, 72283>>, <<72330, 72342>>, <<72344, 72345>>, <<72752, 72758>>,
    <<72760, 72765>>, <<72767, 72767>>, <<72850, 72871>>, <<72874, 72880>>,
    <<72882, 72883>>, <<72885, 72886>>, <<73009, 73014>>, <<73018, 73018>>,
    <<73020, 73021>>, <<73023, 73029>>, <<73031, 73031>>, <<73104, 73105>>,
    <<73109, 73109>>, <<73111, 73111>>, <<73459, 73460>>, <<78896, 78904>>,
    <<92912, 92916>>, <<92976, 92982>>, <<92992, 92995>>, <<94031, 94031>>,
    <<94095, 94111>>, <<94176, 94177>>, <<94179, 94180>>, <<110576, 110579>>,
    <<110581, 110587>>, <<110589, 110590>>, <<113821, 113822>>,
    <<113824, 113827>>, <<118528, 118573>>, <<118576, 118598>>,
    <<119143, 119145>>, <<119155, 119170>>, <<119173, 119179>>,
    <<119210, 119213>>, <<119362, 119364>>, <<121344, 121398>>,
    <<121403, 121452>>, <<121461, 121461>>, <<121476, 121476>>,
    <<121499, 121503>>, <<121505, 121519>>, <<122880, 122886>>,
    <<122888, 122904>>, <<122907, 122913>>, <<122915, 122916>>,
    <<122918, 122922>>, <<123184, 123197>>, <<123566, 123566>>,
    <<123628, 123631>>, <<125136, 125142>>, <<125252, 125259>>,
    <<127995, 127999>>, <<917505, 917505>>, <<917536, 917631>>,
    <<917760, 917999>> }

\* the cased code points that are not case-ignorable, in ranges
Cased ==
  { <<65, 90>>, <<97, 122>>, <<170, 170>>, <<181, 181>>, <<186, 186>>,
    <<192, 214>>, <<216, 246>>, <<248, 442>>, <<444, 447>>, <<452, 659>>,
    <<661, 687>>, <<880, 883>>, <<886, 887>>, <<891, 893>>, <<895, 895>>,
    <<902, 902>>, <<904, 906>>, <<908, 908>>, <<910, 929>>, <<931, 1013>>,
    <<1015, 1153>>, <<1162, 1327>>, <<1329, 1366>>, <<1376, 1416>>,
    <<4256, 4293>>, <<4295, 4295>>, <<4301, 4301>>, <<4304, 4346>>,
    <<4349, 4351>>, <<5024, 5109>>, <<5112, 5117>>, <<7296, 7304>>,
    <<7312, 7354>>, <<7357, 7359>>, <<7424, 7467>>, <<7531, 7543>>,
    <<7545, 7578>>, <<7680, 7957>>, <<7960, 7965>>, <<7968, 8005>>,
    <<8008, 8013>>, <<8016, 8023>>, <<8025, 8025>>, <<8027, 8027>>,
    <<8029, 8029>>, <<8031, 8061>>, <<8064, 8116>>, <<8118, 8124>>,
    <<8126, 8126>>, <<8130, 8132>>, <<8134, 8140>>, <<8144, 8147>>,
    <<8150, 8155>>, <<8160, 8172>>, <<8178, 8180>>, <<8182, 8188>>,
    <<8450, 8450>>, <<8455, 8455>>, <<8458, 8467>>, <<8469, 8469>>,
    <<8473, 8477>>, <<8484, 8484>>, <<8486, 8486>>, <<8488, 8488>>,
    <<8490, 8493>>, <<8495, 8500>>, <<8505, 8505>>, <<8508, 8511>>,
    <<8517, 8521>>, <<8526, 8526>>, <<8544, 8575>>, <<8579, 8580>>,
    <<9398, 9449>>, <<11264, 11387>>, <<11390, 11492>>, <<11499, 11502>>,
    <<11506, 11507>>, <<11520, 11557>>, <<11559, 11559>>, <<11565, 11565>>,
    <<42560, 42605>>, <<42624, 42651>>, <<42786, 42863>>, <<42865, 42887>>,
    <<42891, 42894>>, <<42896, 42954>>, <<42960, 42961>>, <<42963, 42963>>,
    <<42965, 42969>>, <<42997, 42998>>, <<43002, 43002>>, <<43824, 43866>>,
    <<43872, 43880>>, <<43888, 43967>>, <<64256, 64262>>, <<64275, 64279>>,
    <<65313, 65338>>, <<65345, 65370>>, <<66560, 66639>>, <<66736, 66771>>,
    <<66776, 66811>>, <<66928, 66938>>, <<66940, 66954>>, <<66956, 66962>>,
    <<66964, 66965>>, <<66967, 66977>>, <<66979, 66993>>, <<66995, 67001>>,
    <<67003, 67004>>, <<68736, 68786>>, <<68800, 68850>>, <<71840, 71903>>,
    <<93760, 93823>>, <<119808, 119892>>, <<119894, 119964>>,
    <<119966, 119967>>, <<119970, 119970>>, <<119973, 119974>>,
    <<119977, 119980>>, <<119982, 119993>>, <<119995, 119995>>,
    <<119997, 120003>>, <<120005, 120069>>, <<120071, 120074>>,
    <<120077, 120084>>, <<120086, 120092>>, <<120094, 120121>>,
    <<120123, 120126>>, <<120128, 120132>>, <<120134, 120134>>,
    <<120138, 120144>>, <<120146, 120485>>, <<120488, 120512>>,
    <<120514, 120538>>, <<120540, 120570>>, <<120572, 120596>>,
    <<120598, 120628>>, <<120630, 120654>>, <<120656, 120686>>,
    <<120688, 120712>>, <<120714, 120744>>, <<120746, 120770>>,
    <<120772, 120779>>, <<122624, 122633>>, <<122635, 122654>>,
    <<125184, 125251>>, <<127280, 127305>>, <<127312, 127337>>,
    <<127344, 127369>> }

(***************************************************************************)
(* Python str operations                                                   *)
(***************************************************************************)

\* s[i:] with a 1-based i
From(s, i) == SubSeq(s, i, Len(s))

\* s.startswith(p), the test made at 1-based position i
MatchAt(s, i, p) ==
  /\ i + Len(p) - 1 <= Len(s)
  /\ \A k \in 1..Len(p) : s[i + k - 1] = p[k]

StartsWith(s, p) == MatchAt(s, 1, p)

\* p in s
Contains(s, p) == \E i \in 1..(Len(s) - Len(p) + 1) : MatchAt(s, i, p)

\* the least i in lo..hi for which P(i) holds, 0 when there is none
First(lo, hi, P(_)) ==
  IF \E i \in lo..hi : P(i)
  THEN CHOOSE i \in lo..hi : P(i) /\ \A j \in lo..(i - 1) : ~P(j)
  ELSE 0

\* the greatest i in lo..hi for which P(i) holds, 0 when there is none
Last(lo, hi, P(_)) ==
  IF \E i \in lo..hi : P(i)
  THEN CHOOSE i \in lo..hi : P(i) /\ \A j \in (i + 1)..hi : ~P(j)
  ELSE 0

\* U+03A3 (capital sigma) at position i of s is in the final position of a
\* word: the nearest character before it that is not case-ignorable is
\* cased, and the nearest one after it, if any, is not
final_sigma(s, i) ==
  /\ Last(1, i - 1, LAMBDA j : ~InRanges(s[j], CaseIgnorable)) # 0
  /\ InRanges(s[Last(1, i - 1, LAMBDA j : ~InRanges(s[j], CaseIgnorable))],
              Cased)
  /\ \/ First(i + 1, Len(s), LAMBDA j : ~InRanges(s[j], CaseIgnorable)) = 0
     \/ ~InRanges(s[First(i + 1, Len(s),
                          LAMBDA j : ~InRanges(s[j], CaseIgnorable))], Cased)

\* the code points character i of s is lower-cased to
lower_at(s, i) ==
  IF s[i] = 931 THEN <<IF final_sigma(s, i) THEN 962 ELSE 963>>
  ELSE LowerCh(s[i])

\* the position in s.lower() of the first code point of character i of s
lower_start(s, i) == i + Cardinality({j \in 1..(i - 1) : s[j] = 304})

\* s.lower(): character by character when s has neither U+0130, which
\* becomes two code points, nor a capital sigma
Lower(s) ==
  IF \A i \in 1..Len(s) : s[i] \notin {304, 931}
  THEN [i \in 1..Len(s) |-> LowerCh(s[i])[1]]
  ELSE [m \in 1..(lower_start(s, Len(s) + 1) - 1) |->
          lower_at(s, CHOOSE i \in 1..Len(s) :
                        /\ lower_start(s, i) <= m
                        /\ m < lower_start(s, i + 1))
            [m + 1 - lower_start(s, CHOOSE i \in 1..Len(s) :
                                     /\ lower_start(s, i) <= m
                                     /\ m < lower_start(s, i + 1))]]

\* the length of the longest run of characters satisfying In that starts
\* at 1-based position i of s
Run(s, i, In(_)) ==
  IF i > Len(s) THEN 0
  ELSE IF \A j \in i..Len(s) : In(s[j]) THEN Len(s) - i + 1
  ELSE First(i, Len(s), LAMBDA j : ~In(s[j])) - i

\* the run of characters of the set cs that starts at position i
RunLen(s, i, cs) == Run(s, i, LAMBDA c : c \in cs)

\* s with its leading and trailing characters satisfying In dropped
StripBy(s, In(_)) ==
  IF \A j \in 1..Len(s) : In(s[j]) THEN << >>
  ELSE SubSeq(s, First(1, Len(s), LAMBDA j : ~In(s[j])),
                 Last(1, Len(s), LAMBDA j : ~In(s[j])))

\* s.rstrip(chars)
RStrip(s, cs) ==
  SubSeq(s, 1, Last(1, Len(s), LAMBDA j : s[j] \notin cs))

\* s.strip(chars)
StripChars(s, cs) == StripBy(s, LAMBDA c : c \in cs)

\* s.strip(): drop leading and trailing whitespace
Strip(s) == StripBy(s, LAMBDA c : IsSpace(c))

RECURSIVE Replace(_, _, _)
\* the rest of s.replace(old, new) once the first occurrence of old is
\* known to start at i (0: there is none)
ReplaceFrom(s, old, new, i) ==
  IF i = 0 THEN s
  ELSE SubSeq(s, 1, i - 1) \o new \o Replace(From(s, i + Len(old)), old, new)

\* s.replace(old, new) for a non-empty old: non-overlapping occurrences,
\* found left to right
Replace(s, old, new) ==
  ReplaceFrom(s, old, new,
              First(1, Len(s) - Len(old) + 1, LAMBDA j : MatchAt(s, j, old)))

\* s.split('#')[0]: the text before the first occurrence of c
BeforeFirst(s, c) ==
  IF \E j \in 1..Len(s) : s[j] = c
  THEN SubSeq(s, 1, First(1, Len(s), LAMBDA j : s[j] = c) - 1)
  ELSE s

\* s.split('/')[-1]: the text after the last occurrence of c
AfterLast(s, c) == From(s, Last(1, Len(s), LAMBDA j : s[j] = c) + 1)

\* a < b on str: lexicographic by code point.  b is greater at its k-th
\* character when the k-1 characters before agree and a ends there or has
\* a smaller character there.
StrLess(a, b) ==
  \E k \in 1..Len(b) :
     /\ \A j \in 1..(k - 1) : j <= Len(a) /\ a[j] = b[j]
     /\ (k > Len(a) \/ a[k] < b[k])

(***************************************************************************)
(* urllib.parse.unquote                                                    *)
(***************************************************************************)

HexDigits == Chars(<<"0","1","2","3","4","5","6","7","8","9",
                     "a","b","c","d","e","f","A","B","C","D","E","F">>)

HexVal(c) ==
  IF c \in Ch("0")..Ch("9") THEN c - Ch("0")
  ELSE IF c \in Ch("a")..Ch("f") THEN c - Ch("a") + 10
  ELSE c - Ch("A") + 10

\* a percent escape %XX at position i of s
IsEscape(s, i) ==
  /\ i + 2 <= Len(s)
  /\ s[i] = Ch("%")
  /\ s[i + 1] \in HexDigits
  /\ s[i + 2] \in HexDigits

\* a byte >= 0x80 made by an escape is written negated, to keep it apart
\* from a literal character of the str (a literal non-ASCII character ends
\* the run that is decoded as UTF-8)
EscapedByte(b) == IF b >= 128 THEN 0 - b ELSE b

RECURSIVE UnquoteToBytes(_)
\* the rest of unquote_to_bytes once the first escape is known to be at i
UnquoteFrom(s, i) ==
  IF i = 0 THEN s
  ELSE SubSeq(s, 1, i - 1)
       \o <<EscapedByte(16 * HexVal(s[i + 1]) + HexVal(s[i + 2]))>>
       \o UnquoteToBytes(From(s, i + 3))

\* unquote_to_bytes over one str: %XX becomes the byte XX, a '%' that two
\* hex digits do not follow stays
UnquoteToBytes(s) ==
  UnquoteFrom(s, First(1, Len(s) - 2, LAMBDA j : IsEscape(s, j)))

\* how many continuation bytes the UTF-8 lead byte b announces (0: invalid)
Utf8Need(b) ==
  IF b \in 194..223 THEN 1
  ELSE IF b \in 224..239 THEN 2
  ELSE IF b \in 240..244 THEN 3
  ELSE 0

\* the values the k-th continuation byte after lead byte b may take
Utf8Range(b, k) ==
  IF k > 1 THEN 128..191
  ELSE IF b = 224 THEN 160..191
  ELSE IF b = 237 THEN 128..159
  ELSE IF b = 240 THEN 144..191
  ELSE IF b = 244 THEN 128..143
  ELSE 128..191

RECURSIVE Utf8Good(_, _, _)
\* how many of the continuation bytes k.. of the sequence led by t[1] are
\* present and valid
Utf8Good(t, k, need) ==
  IF /\ k <= need
     /\ Len(t) >= k + 1
     /\ t[k + 1] < 0
     /\ (0 - t[k + 1]) \in Utf8Range(0 - t[1], k)
  THEN 1 + Utf8Good(t, k + 1, need)
  ELSE 0

\* the continuation byte k of the sequence at the head of t, less its tag
Utf8Cont(t, k) == (0 - t[k + 1]) - 128

\* the code point of the valid UTF-8 sequence of n+1 bytes at the head of t
Utf8Point(t, n) ==
  IF n = 1 THEN (0 - t[1] - 192) * 64 + Utf8Cont(t, 1)
  ELSE IF n = 2
  THEN (0 - t[1] - 224) * 4096 + Utf8Cont(t, 1) * 64 + Utf8Cont(t, 2)
  ELSE (0 - t[1] - 240) * 262144 + Utf8Cont(t, 1) * 4096
       + Utf8Cont(t, 2) * 64 + Utf8Cont(t, 3)

RECURSIVE Utf8Decode(_)
\* the decoding of u, which starts with an escaped byte that good valid
\* continuation bytes follow: the code point of a complete sequence, else
\* one replacement character U+FFFD (65533) for the maximal invalid prefix
Utf8Emit(u, good) ==
  IF Utf8Need(0 - u[1]) > 0 /\ good = Utf8Need(0 - u[1])
  THEN <<Utf8Point(u, good)>> \o Utf8Decode(From(u, good + 2))
  ELSE <<65533>> \o Utf8Decode(From(u, good + 2))

\* the rest of the decoding once the first escaped byte is known to be at i
Utf8From(t, i) ==
  IF i = 0 THEN t
  ELSE SubSeq(t, 1, i - 1)
       \o Utf8Emit(From(t, i), Utf8Good(From(t, i), 1, Utf8Need(0 - t[i])))

\* bytes.decode('utf-8', 'replace') over the output of UnquoteToBytes
Utf8Decode(t) == Utf8From(t, First(1, Len(t), LAMBDA j : t[j] < 0))

\* urllib.parse.unquote(s)
unquote(s) == Utf8Decode(UnquoteToBytes(s))

(***************************************************************************)
(* clean_url                                                               *)
(***************************************************************************)

BSL == Str(<<"\\">>)
SL  == Str(<<"/">>)

\* cleaned.strip(), .strip('"\''), .strip('\\')
strip_quotes(url) ==
  StripChars(StripChars(Strip(url), Chars(<<"\"", "'">>)), Chars(<<"\\">>))

\* one pass of the body of the escape-removal loop
escape_pass(s) ==
  Replace(Replace(Replace(Replace(Replace(Replace(s,
    Str(<<"\\", "/">>), SL),
    Str(<<"\\", "\\", "/">>), SL),
    Str(<<"\\", "\"">>), << >>),
    Str(<<"\\", "n">>), << >>),
    Str(<<"\\", "r">>), << >>),
    Str(<<"\\", "t">>), << >>)

\* the number of passes the loop `for _ in range(5)` makes at most
EscapePasses == 5

RECURSIVE escape_loop(_, _)
\* the end of a pass that turned old into t, with n passes left: stop when
\* the pass changed nothing
escape_next(old, t, n) == IF t = old THEN t ELSE escape_loop(t, n)

\* the loop: up to n passes
escape_loop(s, n) ==
  IF n = 0 THEN s ELSE escape_next(s, escape_pass(s), n - 1)

RECURSIVE collapse_backslash_slash(_)
\* the run of n backslashes at position i of s: dropped when a slash
\* follows it, kept otherwise
collapse_run(s, i, n) ==
  IF MatchAt(s, i + n, SL)
  THEN SubSeq(s, 1, i - 1) \o SL \o collapse_backslash_slash(From(s, i + n + 1))
  ELSE SubSeq(s, 1, i + n - 1) \o collapse_backslash_slash(From(s, i + n))

\* the rest of the substitution once the first backslash is known to be at i
collapse_from(s, i) ==
  IF i = 0 THEN s ELSE collapse_run(s, i, RunLen(s, i, Chars(<<"\\">>)))

\* re.sub(r'\\+/', '/', s): a run of backslashes that a slash follows
\* becomes that slash
collapse_backslash_slash(s) ==
  collapse_from(s, First(1, Len(s), LAMBDA j : s[j] = Ch("\\")))

\* the percent-decoding step
decode_step(s) ==
  IF Contains(s, Str(<<"%", "2", "F">>)) \/ Contains(s, Str(<<"%", "3", "A">>))
  THEN unquote(s)
  ELSE s

\* clean_url up to and including the percent-decoding: the value of
\* `cleaned` when the protocol test is made (a non-empty url)
cleanup(url) ==
  decode_step(
    collapse_backslash_slash(escape_loop(strip_quotes(url), EscapePasses)))

\* (?<!:)/{2,} matches at position i of s: two slashes, no colon before
double_slash_at(s, i) ==
  /\ MatchAt(s, i, Str(<<"/", "/">>))
  /\ (i = 1 \/ s[i - 1] # Ch(":"))

RECURSIVE collapse_slashes(_, _)
\* the rest of the substitution from position start on, once the next
\* match is known to be at i
collapse_slashes_from(s, start, i) ==
  IF i = 0 THEN From(s, start)
  ELSE SubSeq(s, start, i - 1) \o SL
       \o collapse_slashes(s, i + RunLen(s, i, Chars(<<"/">>)))

\* re.sub(r'(?<!:)/{2,}', '/', s) from position start on: a run of two or
\* more slashes that does not start right after a colon becomes one slash
collapse_slashes(s, start) ==
  collapse_slashes_from(s, start,
    First(start, Len(s) - 1, LAMBDA j : double_slash_at(s, j)))

\* the characters of rstrip('\\",;\')} \t\n\r'); tab, line feed and
\* carriage return are the codes 9, 10 and 13
TrailingGarbage ==
  Chars(<<"\\", "\"", ",", ";", "'", ")", "}", " ">>) \cup {9, 10, 13}

\* the backslashes left as they are: clean_url without the replacement
replace_backslashes_kept(s) == s

\* backslashes to slashes
replace_backslashes(s) == Replace(s, BSL, SL)

\* the steps after the protocol test: backslashes to slashes, runs of
\* slashes to one slash, the trailing garbage stripped, and last the
\* fragment cut: if '#' in cleaned: cleaned = cleaned.split('#')[0]
finish(s) ==
  BeforeFirst(
    RStrip(collapse_slashes(replace_backslashes(s), 1), TrailingGarbage),
    Ch("#"))

\* no protocol test: clean_url with every candidate kept
protocol_ok_always(s) == TRUE

\* the protocol test: TRUE when the candidate is kept
protocol_ok(s) ==
  StartsWith(s, Str(<<"/", "/">>)) \/ StartsWith(s, Str(<<"h", "t", "t", "p">>))

\* the value after the protocol step, for a candidate that passes it
with_protocol(s) ==
  IF StartsWith(s, Str(<<"/", "/">>))
  THEN Str(<<"h", "t", "t", "p", "s", ":">>) \o s
  ELSE s

\* clean_url from the protocol test on, c the value reached by the cleanup
after_cleanup(c) == IF protocol_ok(c) THEN finish(with_protocol(c)) ELSE << >>

\* clean_url(url)
clean_url(url) == IF url = << >> THEN << >> ELSE after_cleanup(cleanup(url))

\* a candidate that is not a str, the number n: written as a sequence that
\* starts with a value greater than every code point
NonStr(n) == <<1114112, n>>

\* the candidate is a str
IsStr(c) == c = << >> \/ c[1] < 1114112

\* clean_url(url) raises AttributeError: url is not a str and is truthy, so
\* `if not url` lets it through and url.strip() does not exist
clean_url_raises(url) == ~IsStr(url) /\ url[2] # 0

(***************************************************************************)
(* filter_urls                                                             *)
(***************************************************************************)

\* a stripped keyword, lower-cased, unless it is empty
norm_keyword(k) == IF k # << >> THEN <<Lower(k)>> ELSE << >>

RECURSIVE norm_keywords(_)
\* [kw.strip().lower() for kw in kws if kw.strip()]
norm_keywords(kws) ==
  IF kws = << >> THEN << >>
  ELSE norm_keyword(Strip(kws[1])) \o norm_keywords(Tail(kws))

\* all_include: the include keywords, then the custom keywords
all_include(include_keywords, custom_xpath_keywords) ==
  norm_keywords(include_keywords) \o norm_keywords(custom_xpath_keywords)

\* no exclude check: filter_urls with the exclude keywords ignored
is_excluded_never(cleaned_lower, all_exclude) == FALSE

\* the exclude check: some keyword of all_exclude is in cleaned_lower
is_excluded(cleaned_lower, all_exclude) ==
  \E i \in 1..Len(all_exclude) : Contains(cleaned_lower, all_exclude[i])

\* the include check finds a keyword
is_included(cleaned_lower, incl) ==
  \E i \in 1..Len(incl) : Contains(cleaned_lower, incl[i])

\* the last keyword of the include list that matches: the include loop
\* without its break
first_match_last(cleaned_lower, incl) ==
  incl[Last(1, Len(incl), LAMBDA i : Contains(cleaned_lower, incl[i]))]

\* matched_kw: the first keyword of the include list that matches
first_match(cleaned_lower, incl) ==
  incl[First(1, Len(incl), LAMBDA i : Contains(cleaned_lower, incl[i]))]

\* no `cleaned in seen` test: filter_urls without the dedup
already_seen_never(cleaned, results) == FALSE

\* the `cleaned in seen` test; seen holds the URLs of the accepted results
already_seen(cleaned, results) ==
  \E i \in 1..Len(results) : results[i][1] = cleaned

\* the body of the loop after `cleaned = clean_url(raw_url)`: the results
\* after the iteration
accept(results, cleaned, incl, excl) ==
  IF cleaned = << >> THEN results
  ELSE IF already_seen(cleaned, results) THEN results
  ELSE IF is_excluded(Lower(cleaned), excl) THEN results
  ELSE IF ~is_included(Lower(cleaned), incl) THEN results
  ELSE Append(results, <<cleaned, first_match(Lower(cleaned), incl)>>)

\* one iteration of `for raw_url in all_urls`
filter_step(results, raw_url, incl, excl) ==
  accept(results, clean_url(raw_url), incl, excl)

RECURSIVE filter_loop(_, _, _, _)
\* the loop over all_urls, in the order of the list
filter_loop(results, urls, incl, excl) ==
  IF urls = << >> THEN results
  ELSE filter_loop(filter_step(results, urls[1], incl, excl),
                   Tail(urls), incl, excl)

\* the sort key: x[0].split('/')[-1].lower()
sort_key(x) == Lower(AfterLast(x[1], Ch("/")))

RECURSIVE insert_sorted(_, _)
\* x put into the sorted list after every element whose key is not greater
insert_sorted(sorted, x) ==
  IF sorted = << >> THEN <<x>>
  ELSE IF StrLess(sort_key(x), sort_key(sorted[1])) THEN <<x>> \o sorted
  ELSE <<sorted[1]>> \o insert_sorted(Tail(sorted), x)

\* no sort: the results in the order of acceptance
sort_results_unsorted(sorted, rest) == rest

RECURSIVE sort_results(_, _)
\* results.sort(key=...): list.sort is stable, so elements of equal key keep
\* the order they had
sort_results(sorted, rest) ==
  IF rest = << >> THEN sorted
  ELSE sort_results(insert_sorted(sorted, rest[1]), Tail(rest))

\* filter_urls raises: clean_url raises for a candidate of the list
filter_raises(urls) == \E i \in 1..Len(urls) : clean_url_raises(urls[i])

\* filter_urls(all_urls, include_keywords, exclude_keywords,
\*             custom_xpath_keywords)
filter_urls(urls, include_keywords, exclude_keywords, custom_xpath_keywords) ==
  sort_results(<< >>,
    filter_loop(<< >>, urls,
                all_include(include_keywords, custom_xpath_keywords),
                norm_keywords(exclude_keywords)))

(***************************************************************************)
(* The regular expressions of extract_all_urls_from_har                    *)
(*                                                                         *)
(* A pattern is matched left to right from a position of the text; each    *)
(* piece below takes the position p reached so far (0: the match has       *)
(* failed) and gives the position after the piece, or 0.  None of the      *)
(* patterns can match in two ways from one position, so no backtracking    *)
(* is modelled.                                                            *)
(***************************************************************************)

\* the run of a negated class: how many characters from position i on are
\* neither in the set stop nor (when nospace) whitespace
ClassRun(s, i, stop, nospace) ==
  Run(s, i, LAMBDA c : c \notin stop /\ ~(nospace /\ IsSpace(c)))

\* re.IGNORECASE on a str pattern: the characters an ASCII character p of
\* the pattern matches are those with the lower case of p, and for i, k
\* and s the characters the re module takes as their equals (dotted capital
\* and dotless small i, the Kelvin sign, the long s)
CaseVariants(p) ==
  {p} \cup (IF p \in 65..90 THEN {p + 32} ELSE {})
      \cup (IF p \in 97..122 THEN {p - 32} ELSE {})
      \cup (IF p \in {73, 105} THEN {304, 305} ELSE {})
      \cup (IF p \in {75, 107} THEN {8490} ELSE {})
      \cup (IF p \in {83, 115} THEN {383} ELSE {})

\* a literal matched at position i, ignoring case when ic (re.IGNORECASE)
LitAt(s, i, p, ic) ==
  /\ i + Len(p) - 1 <= Len(s)
  /\ \A k \in 1..Len(p) :
       IF ic THEN s[i + k - 1] \in CaseVariants(p[k]) ELSE s[i + k - 1] = p[k]

\* a literal
Lit(s, p, lit, ic) == IF p # 0 /\ LitAt(s, p, lit, ic) THEN p + Len(lit) ELSE 0

\* an optional literal: x?
Opt(s, p, lit, ic) == IF p # 0 /\ LitAt(s, p, lit, ic) THEN p + Len(lit) ELSE p

\* \s*
SkipSpace(s, p) ==
  IF p = 0 THEN 0 ELSE p + Run(s, p, LAMBDA c : IsSpace(c))

\* one character of the set cs: [...]
OneOf(s, p, cs) == IF p # 0 /\ p <= Len(s) /\ s[p] \in cs THEN p + 1 ELSE 0

\* [^...]* : the longest run
Many0(s, p, stop, nospace) ==
  IF p = 0 THEN 0 ELSE p + ClassRun(s, p, stop, nospace)

\* [^...]+ : the longest run, of one character at least
Many1(s, p, stop, nospace) ==
  IF p # 0 /\ ClassRun(s, p, stop, nospace) > 0
  THEN p + ClassRun(s, p, stop, nospace)
  ELSE 0

\* an alternation of literals (case ignored): (?:a|b|...).  No name of the
\* lists below is a prefix of another, so at most one alternative matches.
Alt(s, p, names) ==
  IF p # 0 /\ \E n \in 1..Len(names) : LitAt(s, p, names[n], TRUE)
  THEN p + Len(names[CHOOSE n \in 1..Len(names) : LitAt(s, p, names[n], TRUE)])
  ELSE 0

\* \\{lo,hi}/ : a run of lo..hi backslashes and the slash after it.  The
\* run has to be the whole run of backslashes at p: a shorter one is
\* followed by a backslash, not by the slash.
EscSlash(s, p, lo, hi) ==
  IF /\ p # 0
     /\ RunLen(s, p, Chars(<<"\\">>)) \in lo..hi
     /\ MatchAt(s, p + RunLen(s, p, Chars(<<"\\">>)), SL)
  THEN p + RunLen(s, p, Chars(<<"\\">>)) + 1
  ELSE 0

\* https?:
Scheme(s, p, ic) ==
  Lit(s, Opt(s, Lit(s, p, Str(<<"h", "t", "t", "p">>), ic), Str(<<"s">>), ic),
      Str(<<":">>), FALSE)

\* the three ways the patterns write the two slashes after the scheme:
\*   "plain"  //     "single"  \\?/\\?/     "multi"  \\{1,4}/\\{0,4}/
MinEscapes(kind) == IF kind = "multi" THEN 1 ELSE 0
MaxEscapes(kind) ==
  IF kind = "plain" THEN 0 ELSE IF kind = "single" THEN 1 ELSE 4

Slashes(s, p, kind) ==
  EscSlash(s, EscSlash(s, p, MinEscapes(kind), MaxEscapes(kind)),
           0, MaxEscapes(kind))

\* https?:<slashes>[^\s<stop>]+
UrlEnd(s, p, kind, stop, ic) ==
  Many1(s, Slashes(s, Scheme(s, p, ic), kind), stop, TRUE)

\* a match: <<start of the group that findall returns, position after that
\* group, position after the match>>; NoMatch when the pattern fails
NoMatch == <<0, 0, 0>>
MatchOf(gs, ge, e) == IF e = 0 THEN NoMatch ELSE <<gs, ge, e>>

\* a URL pattern at position i: the group is the whole match
UrlMatch(s, i, kind, stop) ==
  MatchOf(i, UrlEnd(s, i, kind, stop, FALSE), UrlEnd(s, i, kind, stop, FALSE))

\* [^\s"'<>\\,;]
StopHeader == Chars(<<"\"", "'", "<", ">", "\\", ",", ";">>)
\* [^\s"'<>,;]
StopEscaped == Chars(<<"\"", "'", "<", ">", ",", ";">>)
\* [^\s"'<>\\,;\]})]
StopJson == StopHeader \cup Chars(<<"]", "}", ")">>)
\* [^\s"'<>,;\]})]
StopJsonEscaped == StopEscaped \cup Chars(<<"]", "}", ")">>)
\* [^\s"'<>]
StopRaw == Chars(<<"\"", "'", "<", ">">>)

\* the attribute names of the HTML pattern, in the order of the alternation
AttrNames ==
  << Str(<<"h", "r", "e", "f">>), Str(<<"s", "r", "c">>),
     Str(<<"d", "a", "t", "a", "-", "h", "r", "e", "f">>),
     Str(<<"d", "a", "t", "a", "-", "s", "r", "c">>),
     Str(<<"d", "a", "t", "a", "-", "u", "r", "l">>),
     Str(<<"a", "c", "t", "i", "o", "n">>) >>

\* the element names of the table/list pattern
TagNames ==
  << Str(<<"t", "d">>), Str(<<"s", "p", "a", "n">>), Str(<<"d", "i", "v">>),
     Str(<<"p">>), Str(<<"l", "i">>) >>

Quotes == Chars(<<"\"", "'">>)

\* (?:href|src|data-href|data-src|data-url|action)\s*=\s*["']
AttrOpen(s, i) ==
  OneOf(s, SkipSpace(s, Lit(s, SkipSpace(s, Alt(s, i, AttrNames)),
                            Str(<<"=">>), FALSE)),
        Quotes)

\* ([^"']+)["'] from the position d after the opening quote
AttrValue(s, d) ==
  MatchOf(d, Many1(s, d, Quotes, FALSE),
          OneOf(s, Many1(s, d, Quotes, FALSE), Quotes))

\* the attribute pattern at position i
AttrMatch(s, i) == AttrValue(s, AttrOpen(s, i))

\* <(?:td|span|div|p|li)[^>]*>\s*
TagOpen(s, i) ==
  SkipSpace(s, Lit(s, Many0(s, Alt(s, Lit(s, i, Str(<<"<">>), FALSE), TagNames),
                            Chars(<<">">>), FALSE),
                   Str(<<">">>), FALSE))

\* \s*</(?:td|span|div|p|li)> from the position d after the URL
TagClose(s, d) ==
  Lit(s, Alt(s, Lit(s, SkipSpace(s, d), Str(<<"<", "/">>), FALSE), TagNames),
      Str(<<">">>), FALSE)

\* (https?://[^\s<]+) and the closing tag, from the position c after the
\* opening tag; the whole pattern is compiled with re.IGNORECASE
TagUrl(s, c) ==
  MatchOf(c, UrlEnd(s, c, "plain", Chars(<<"<">>), TRUE),
          TagClose(s, UrlEnd(s, c, "plain", Chars(<<"<">>), TRUE)))

\* the table/list pattern at position i
TagMatch(s, i) == TagUrl(s, TagOpen(s, i))

\* the patterns, as records
UrlPattern(kind, stop) == [re |-> "url", kind |-> kind, stop |-> stop]
AttrPattern == [re |-> "attr", kind |-> "", stop |-> {}]
TagPattern  == [re |-> "tag", kind |-> "", stop |-> {}]

\* the pattern pat at position i of s
Match(s, i, pat) ==
  IF pat.re = "url" THEN UrlMatch(s, i, pat.kind, pat.stop)
  ELSE IF pat.re = "attr" THEN AttrMatch(s, i)
  ELSE TagMatch(s, i)

RECURSIVE FindAll(_, _, _)
\* the match m and the matches after it
FindAllEmit(s, m, pat) == {SubSeq(s, m[1], m[2] - 1)} \cup FindAll(s, m[3], pat)

\* the matches from the leftmost match position b on (0: no match is left)
FindAllAt(s, b, pat) ==
  IF b = 0 THEN {} ELSE FindAllEmit(s, Match(s, b, pat), pat)

\* re.findall(pat, s), from position i on: the groups of the
\* non-overlapping matches, leftmost first
FindAll(s, i, pat) ==
  FindAllAt(s, First(i, Len(s), LAMBDA j : Match(s, j, pat) # NoMatch), pat)

\* the union of re.findall(pat, text) over the patterns pats
scan(text, pats) == UNION {FindAll(text, 1, pat) : pat \in pats}

(***************************************************************************)
(* The capture document                                                    *)
(*                                                                         *)
(* har_content is given by what json.loads makes of it: Invalid for a text *)
(* on which json.loads raises JSONDecodeError, otherwise the JSON value,   *)
(* a record [t |-> type, v |-> value]:                                     *)
(*   null, bool, num, str (a str), arr (a sequence of values),             *)
(*   obj (a function from key names to values).                            *)
(* The containers of a capture (the document, log, entries, an entry,      *)
(* request, response, postData, content, a header list, a header) and     *)
(* every field the function reads (url, name, value, text, mimeType) may   *)
(* be any value.  Two documents stand for texts json.loads gives no value  *)
(* for: Invalid, for which it raises JSONDecodeError, and Unloadable, for  *)
(* which it raises another exception (ValueError for a number of more      *)
(* digits than int() converts, RecursionError for a deep nesting).         *)
(***************************************************************************)

Invalid  == [t |-> "invalid", v |-> 0]
Unloadable == [t |-> "unloadable", v |-> 0]
JNull    == [t |-> "null", v |-> 0]
JBool(b) == [t |-> "bool", v |-> b]
JNum(n)  == [t |-> "num", v |-> n]
JStr(s)  == [t |-> "str", v |-> s]
JArr(xs) == [t |-> "arr", v |-> xs]
JObj(f)  == [t |-> "obj", v |-> f]

\* the empty dict {} and the defaults '' and []
EmptyObj == JObj([k \in {} |-> JNull])
EmptyStr == JStr(<< >>)
EmptyArr == JArr(<< >>)

IsObj(x) == x.t = "obj"

\* x is a str
IsText(x) == x.t = "str"

\* bool(x)
Truthy(x) ==
  IF x.t = "null" THEN FALSE
  ELSE IF x.t = "bool" THEN x.v
  ELSE IF x.t = "num" THEN x.v # 0
  ELSE IF x.t = "obj" THEN DOMAIN x.v # {}
  ELSE x.v # << >>

\* o.get(k, d) on a dict o
Get(o, k, d) == IF k \in DOMAIN o.v THEN o.v[k] ELSE d

\* `for item in x: item.get(...)` raises: x is not iterable (TypeError), or
\* an item of x is not a dict (AttributeError: the characters of a str, the
\* keys of a dict and the non-dict elements of a list have no .get)
loop_raises(x) ==
  IF x.t = "arr" THEN \E i \in 1..Len(x.v) : ~IsObj(x.v[i])
  ELSE IF x.t \in {"str", "obj"} THEN Truthy(x)
  ELSE TRUE

\* the dicts the loop visits, when it does not raise
loop_items(x) == IF x.t = "arr" THEN {x.v[i] : i \in 1..Len(x.v)} ELSE {}

(***************************************************************************)
(* extract_all_urls_from_har                                               *)
(***************************************************************************)

HTTP == Str(<<"h", "t", "t", "p">>)

\* the element all_urls.add(x) adds: a str as it is, a number or a bool as
\* the number it is equal to
candidate(x) ==
  IF x.t = "str" THEN x.v
  ELSE IF x.t = "bool" THEN NonStr(IF x.v THEN 1 ELSE 0)
  ELSE NonStr(x.v)

\* all_urls.add(x) raises TypeError: a truthy list or dict is unhashable
unhashable(x) == x.t \in {"arr", "obj"} /\ Truthy(x)

\* 1. the request URL
request_url(request) ==
  IF Truthy(Get(request, "url", EmptyStr))
  THEN {candidate(Get(request, "url", EmptyStr))}
  ELSE {}

\* 2. one request header: val.lower() raises AttributeError unless the
\* value is a str
request_header_raises(header) == ~IsText(Get(header, "value", EmptyStr))

\* its value is scanned when its lower-cased value has "http" in it
request_header_urls(header) ==
  IF Contains(Lower(Get(header, "value", EmptyStr).v), HTTP)
  THEN scan(Get(header, "value", EmptyStr).v,
            {UrlPattern("plain", StopHeader)})
  ELSE {}

\* a truthy value that is not a str, where the code goes on to use a str:
\* re.findall raises TypeError, .strip() AttributeError
truthy_not_text(x) == Truthy(x) /\ ~IsText(x)

\* 3. the request POST data, scanned when it is truthy
post_data_urls(post_data) ==
  IF Truthy(Get(post_data, "text", EmptyStr))
  THEN scan(Get(post_data, "text", EmptyStr).v,
            {UrlPattern("plain", StopHeader),
             UrlPattern("single", StopEscaped)})
  ELSE {}

\* the header names whose value is taken
LinkHeaders ==
  { Str(<<"l", "o", "c", "a", "t", "i", "o", "n">>),
    Str(<<"c", "o", "n", "t", "e", "n", "t", "-",
          "l", "o", "c", "a", "t", "i", "o", "n">>),
    Str(<<"l", "i", "n", "k">>) }

\* `'http' in val` is true: val is a str with http in it, a list with the
\* element 'http', or a dict with the key 'http'
has_http(val) ==
  IF val.t = "str" THEN Contains(val.v, HTTP)
  ELSE IF val.t = "arr"
  THEN \E i \in 1..Len(val.v) : IsText(val.v[i]) /\ val.v[i].v = HTTP
  ELSE IF val.t = "obj" THEN "http" \in DOMAIN val.v
  ELSE FALSE

ContentDisposition ==
  Str(<<"c", "o", "n", "t", "e", "n", "t", "-",
        "d", "i", "s", "p", "o", "s", "i", "t", "i", "o", "n">>)

\* 4. one response header raises: the name has no .lower() (AttributeError);
\* the `in` test on the value of a link header or of a content-disposition
\* header is on a value that is no container (TypeError); a link header's
\* list or dict with 'http' in it cannot be added to the set (TypeError)
response_header_raises(header) ==
  \/ ~IsText(Get(header, "name", EmptyStr))
  \/ /\ Lower(Get(header, "name", EmptyStr).v)
          \in LinkHeaders \cup {ContentDisposition}
     /\ Get(header, "value", EmptyStr).t \in {"null", "bool", "num"}
  \/ /\ Lower(Get(header, "name", EmptyStr).v) \in LinkHeaders
     /\ ~IsText(Get(header, "value", EmptyStr))
     /\ has_http(Get(header, "value", EmptyStr))

\* the value of a link header with http in it
response_header_urls(header) ==
  IF /\ Lower(Get(header, "name", EmptyStr).v) \in LinkHeaders
     /\ has_http(Get(header, "value", EmptyStr))
  THEN {Get(header, "value", EmptyStr).v}
  ELSE {}

\* the branch taken for a response body
body_kind(mime, body_text) ==
  IF \/ Contains(mime, Str(<<"j", "s", "o", "n">>))
     \/ StartsWith(Strip(body_text), Str(<<"{">>))
     \/ StartsWith(Strip(body_text), Str(<<"[">>))
  THEN "json"
  ELSE IF Contains(mime, Str(<<"h", "t", "m", "l">>)) THEN "html"
  ELSE IF \/ Contains(mime,
                      Str(<<"j", "a", "v", "a", "s", "c", "r", "i", "p", "t">>))
          \/ Contains(mime, Str(<<"s", "c", "r", "i", "p", "t">>))
  THEN "javascript"
  ELSE "other"

\* the unescaped pass alone: the scan of a JSON body without the two passes
\* for escaped slashes
json_patterns_unescaped == {UrlPattern("plain", StopJson)}

\* the three passes over a JSON body: unescaped, singly escaped, multiply
\* escaped
json_patterns ==
  { UrlPattern("plain", StopJson),
    UrlPattern("single", StopJsonEscaped),
    UrlPattern("multi", StopJsonEscaped) }

\* the passes over a body whose matches are taken as they are: the three
\* over a JSON body; raw URLs and table or list cells in an HTML body; the
\* unescaped and the singly escaped pass over a JavaScript body; raw URLs
\* in any other body
body_patterns(kind) ==
  IF kind = "json" THEN json_patterns
  ELSE IF kind = "html" THEN {UrlPattern("plain", StopRaw), TagPattern}
  ELSE IF kind = "javascript"
  THEN {UrlPattern("plain", StopHeader), UrlPattern("single", StopEscaped)}
  ELSE {UrlPattern("plain", StopRaw)}

\* the attribute values of an HTML body that start with http
html_attr_urls(body_text, kind) ==
  IF kind = "html"
  THEN {f \in scan(body_text, {AttrPattern}) : StartsWith(f, HTTP)}
  ELSE {}

\* the URLs of a non-empty body of the given kind
body_text_urls(body_text, kind) ==
  scan(body_text, body_patterns(kind)) \cup html_attr_urls(body_text, kind)

\* 5. the response body raises: with a truthy text, the mimeType has no
\* .lower() (AttributeError), or the text is not a str
content_raises(content) ==
  /\ Truthy(Get(content, "text", EmptyStr))
  /\ \/ ~IsText(Get(content, "mimeType", EmptyStr))
     \/ ~IsText(Get(content, "text", EmptyStr))

\* the URLs of the response body
body_urls(content) ==
  IF Truthy(Get(content, "text", EmptyStr))
  THEN body_text_urls(Get(content, "text", EmptyStr).v,
                      body_kind(Lower(Get(content, "mimeType", EmptyStr).v),
                                Get(content, "text", EmptyStr).v))
  ELSE {}

\* the body of `for entry in entries` raises an exception
request_raises(request) ==
  \/ ~IsObj(request)
  \/ unhashable(Get(request, "url", EmptyStr))
  \/ loop_raises(Get(request, "headers", EmptyArr))
  \/ \E h \in loop_items(Get(request, "headers", EmptyArr)) :
       request_header_raises(h)
  \/ ~IsObj(Get(request, "postData", EmptyObj))
  \/ truthy_not_text(Get(Get(request, "postData", EmptyObj), "text", EmptyStr))

response_raises(response) ==
  \/ ~IsObj(response)
  \/ loop_raises(Get(response, "headers", EmptyArr))
  \/ \E h \in loop_items(Get(response, "headers", EmptyArr)) :
       response_header_raises(h)
  \/ ~IsObj(Get(response, "content", EmptyObj))
  \/ content_raises(Get(response, "content", EmptyObj))

entry_raises(entry) ==
  \/ ~IsObj(entry)
  \/ request_raises(Get(entry, "request", EmptyObj))
  \/ response_raises(Get(entry, "response", EmptyObj))

\* the URLs the request and the response of an entry add to all_urls, when
\* the scan of the entry does not raise
request_urls(request) ==
  request_url(request)
    \cup UNION {request_header_urls(h) :
                  h \in loop_items(Get(request, "headers", EmptyArr))}
    \cup post_data_urls(Get(request, "postData", EmptyObj))

response_urls(response) ==
  UNION {response_header_urls(h) :
           h \in loop_items(Get(response, "headers", EmptyArr))}
    \cup body_urls(Get(response, "content", EmptyObj))

entry_urls(entry) ==
  request_urls(Get(entry, "request", EmptyObj))
    \cup response_urls(Get(entry, "response", EmptyObj))

\* the outcomes of a call: a return value, with the message given to
\* st.error if any (of "Invalid HAR file: <exception>" the part before the
\* colon), or an exception that leaves the function
Returned(urls, error) == [raised |-> FALSE, error |-> error, urls |-> urls]
Raised == [raised |-> TRUE, error |-> "", urls |-> {}]

\* the loop over the non-empty entries
scan_entries(entries) ==
  IF loop_raises(entries) THEN Raised
  ELSE IF \E e \in loop_items(entries) : entry_raises(e) THEN Raised
  ELSE Returned(UNION {entry_urls(e) : e \in loop_items(entries)}, "")

\* the function after `entries = har_data.get('log', {}).get('entries', [])`
with_entries(entries) ==
  IF ~Truthy(entries) THEN Returned({}, "No entries found in HAR file")
  ELSE scan_entries(entries)

\* the function after `har_data.get('log', {})`
with_log(log) ==
  IF ~IsObj(log) THEN Raised ELSE with_entries(Get(log, "entries", EmptyArr))

\* extract_all_urls_from_har(har_content); urls is the set all_urls, which
\* the function returns as a list in the set's iteration order
extract_all_urls_from_har(har_content) ==
  IF har_content.t = "invalid" THEN Returned({}, "Invalid HAR file")
  ELSE IF har_content.t = "unloadable" THEN Raised
  ELSE IF ~IsObj(har_content) THEN Raised
  ELSE with_log(Get(har_content, "log", EmptyObj))

(***************************************************************************)
(* The keyword inputs of the page                                          *)
(***************************************************************************)

RECURSIVE Split(_, _)
\* the rest of s.split(c) once the first c is known to be at i
SplitAt(s, c, i) ==
  IF i = 0 THEN <<s>> ELSE <<SubSeq(s, 1, i - 1)>> \o Split(From(s, i + 1), c)

\* s.split(c) for a one-character separator c
Split(s, c) == SplitAt(s, c, First(1, Len(s), LAMBDA j : s[j] = c))

\* kw.strip() of one piece, unless that is empty
stripped_keyword(k) == IF k # << >> THEN <<k>> ELSE << >>

RECURSIVE stripped_keywords(_)
\* [kw.strip() for kw in pieces if kw.strip()]
stripped_keywords(pieces) ==
  IF pieces = << >> THEN << >>
  ELSE stripped_keyword(Strip(pieces[1])) \o stripped_keywords(Tail(pieces))

\* include_keywords and exclude_keywords from their text inputs
parse_keywords(input) == stripped_keywords(Split(input, Ch("|")))

\* custom_keywords from its text area: [] when the stripped text is empty
parse_custom_keywords(input) ==
  IF Strip(input) # << >> THEN parse_keywords(input) ELSE << >>

(***************************************************************************)
(* State                                                                   *)
(***************************************************************************)

VARIABLES
  raw_links,       \* st.session_state.raw_links
  filtered_links,  \* st.session_state.filtered_links
  har_loaded,      \* st.session_state.har_loaded
  run,             \* what the last script run of the page did
  stage,           \* which call of a function under study has been made
  url,             \* clean_url: the argument
  cleaned,         \* clean_url(url)
  recleaned,       \* clean_url(cleaned)
  har_content,     \* extract_all_urls_from_har: the argument, as parsed
  extracted,       \* the outcome of extract_all_urls_from_har(har_content)
  all_urls,        \* filter_urls: the list of raw candidates
  keywords,        \* filter_urls: include, exclude and custom keyword lists
  results,         \* filter_urls(all_urls, ...)
  reordered,       \* filter_urls: all_urls in another order
  reordered_results  \* filter_urls(reordered, ...)

vars == <<raw_links, filtered_links, har_loaded, run, stage,
          url, cleaned, recleaned, har_content, extracted,
          all_urls, keywords, results, reordered, reordered_results>>

session_vars == <<raw_links, filtered_links, har_loaded, run>>
clean_vars   == <<url, cleaned, recleaned>>
filter_vars  == <<all_urls, keywords, results, reordered, reordered_results>>
extract_vars == <<har_content, extracted>>

\* the session store when a session starts
SessionInit ==
  /\ raw_links = << >>
  /\ filtered_links = << >>
  /\ har_loaded = FALSE

\* a script run in which no button was pressed
NoRun ==
  [ action |-> "none", raised |-> FALSE, error |-> "",
    filter_invoked |-> FALSE ]

\* no call of a function under study has been made
NoCleanCall == url = << >> /\ cleaned = << >> /\ recleaned = << >>
NoFilterCall ==
  /\ all_urls = << >> /\ keywords = << << >>, << >>, << >> >>
  /\ results = << >> /\ reordered = << >> /\ reordered_results = << >>
NoExtractCall == har_content = JNull /\ extracted = Returned({}, "")

RECURSIVE SeqsOfLen(_, _)
\* the sequences over the set A of length n
SeqsOfLen(A, n) ==
  IF n = 0 THEN {<< >>}
  ELSE {Append(q, a) : q \in SeqsOfLen(A, n - 1), a \in A}

\* the sequences over the set A of length at most n
SeqsUpTo(A, n) == UNION {SeqsOfLen(A, k) : k \in 0..n}

RECURSIVE Concat(_)
\* the concatenation of a sequence of strs
Concat(parts) ==
  IF parts = << >> THEN << >> ELSE parts[1] \o Concat(Tail(parts))

RECURSIVE Orderings(_)
\* the lists a set can be iterated as: list(all_urls)
Orderings(set) ==
  IF set = {} THEN {<< >>}
  ELSE UNION {{<<x>> \o rest : rest \in Orderings(set \ {x})} : x \in set}

(***************************************************************************)
(* The texts of the examples; the comment before each gives the text,      *)
(* between a first and a last |                                            *)
(***************************************************************************)

\* the URLs of the examples

\* |https://site.com/reports/annual.pdf|
UrlAnnual ==
  Str(<<"h", "t", "t", "p", "s", ":", "/", "/", "s", "i", "t", "e", ".",
        "c", "o", "m", "/", "r", "e", "p", "o", "r", "t", "s", "/", "a",
        "n", "n", "u", "a", "l", ".", "p", "d", "f">>)

\* |http://a/x.pdf|
UrlAX ==
  Str(<<"h", "t", "t", "p", ":", "/", "/", "a", "/", "x", ".", "p", "d",
        "f">>)

\* |"http://a/x.pdf"|
UrlAXQuoted ==
  Str(<<"\"", "h", "t", "t", "p", ":", "/", "/", "a", "/", "x", ".", "p",
        "d", "f", "\"">>)

\* |http://b/X.pdf|
UrlBX ==
  Str(<<"h", "t", "t", "p", ":", "/", "/", "b", "/", "X", ".", "p", "d",
        "f">>)

\* |http://a/docs/b.pdf|
UrlDocsB ==
  Str(<<"h", "t", "t", "p", ":", "/", "/", "a", "/", "d", "o", "c", "s",
        "/", "b", ".", "p", "d", "f">>)

\* |http://a/docs/c|
UrlDocsC ==
  Str(<<"h", "t", "t", "p", ":", "/", "/", "a", "/", "d", "o", "c", "s",
        "/", "c">>)

\* |ftp://a/x.pdf|
UrlFtp ==
  Str(<<"f", "t", "p", ":", "/", "/", "a", "/", "x", ".", "p", "d", "f">>)

\* |http://b/docs/Y.PDF?v=1|
UrlQuery ==
  Str(<<"h", "t", "t", "p", ":", "/", "/", "b", "/", "d", "o", "c", "s",
        "/", "Y", ".", "P", "D", "F", "?", "v", "=", "1">>)

\* |https://a/b,c.pdf|
UrlComma ==
  Str(<<"h", "t", "t", "p", "s", ":", "/", "/", "a", "/", "b", ",", "c",
        ".", "p", "d", "f">>)

\* |http://a/b.pdf,c.pdf|
UrlCommaPdf ==
  Str(<<"h", "t", "t", "p", ":", "/", "/", "a", "/", "b", ".", "p", "d",
        "f", ",", "c", ".", "p", "d", "f">>)

\* |http://a/x.pdf#t|
UrlFragment ==
  Str(<<"h", "t", "t", "p", ":", "/", "/", "a", "/", "x", ".", "p", "d",
        "f", "#", "t">>)

\* |http://a//y.pdf|
UrlDoubled ==
  Str(<<"h", "t", "t", "p", ":", "/", "/", "a", "/", "/", "y", ".", "p",
        "d", "f">>)

\* keywords, and the texts of keyword inputs

\* |.pdf|
KwPdf ==
  Str(<<".", "p", "d", "f">>)

\* |/docs/|
KwDocs ==
  Str(<<"/", "d", "o", "c", "s", "/">>)

\* |x.pdf|
KwXPdf ==
  Str(<<"x", ".", "p", "d", "f">>)

\* | .PDF |
KwPdfPadded ==
  Str(<<" ", ".", "P", "D", "F", " ">>)

\* |/DOCS/|
KwDocsUpper ==
  Str(<<"/", "D", "O", "C", "S", "/">>)

\* |/docs/| |
InputDocs ==
  Str(<<"/", "d", "o", "c", "s", "/", "|", " ">>)

\* | .PDF |/docs/|
InputPdfDocs ==
  Str(<<" ", ".", "P", "D", "F", " ", "|", "/", "d", "o", "c", "s", "/">>)

\* |x.pdf||b/|
InputExclude ==
  Str(<<"x", ".", "p", "d", "f", "|", "|", "b", "/">>)

\* header names and MIME types

\* |Referer|
RefererName ==
  Str(<<"R", "e", "f", "e", "r", "e", "r">>)

\* |Location|
LocationName ==
  Str(<<"L", "o", "c", "a", "t", "i", "o", "n">>)

\* |application/json|
MimeJson ==
  Str(<<"a", "p", "p", "l", "i", "c", "a", "t", "i", "o", "n", "/", "j",
        "s", "o", "n">>)

\* |text/html|
MimeHtml ==
  Str(<<"t", "e", "x", "t", "/", "h", "t", "m", "l">>)

\* |TEXT/HTML|
MimeHtmlUpper ==
  Str(<<"T", "E", "X", "T", "/", "H", "T", "M", "L">>)

\* |text/javascript|
MimeScript ==
  Str(<<"t", "e", "x", "t", "/", "j", "a", "v", "a", "s", "c", "r", "i",
        "p", "t">>)

\* |text/plain|
MimePlain ==
  Str(<<"t", "e", "x", "t", "/", "p", "l", "a", "i", "n">>)

\* header values and body texts

\* |r=http://b/X.pdf;q|
RefererValue ==
  Str(<<"r", "=", "h", "t", "t", "p", ":", "/", "/", "b", "/", "X", ".",
        "p", "d", "f", ";", "q">>)

\* |u=http:\/\/a\/docs\/b.pdf|
PostText ==
  Str(<<"u", "=", "h", "t", "t", "p", ":", "\\", "/", "\\", "/", "a",
        "\\", "/", "d", "o", "c", "s", "\\", "/", "b", ".", "p", "d",
        "f">>)

\* |<td> http://a/x.pdf</td>|
CellText ==
  Str(<<"<", "t", "d", ">", " ", "h", "t", "t", "p", ":", "/", "/", "a",
        "/", "x", ".", "p", "d", "f", "<", "/", "t", "d", ">">>)

\* |<a href='http://b/X.pdf#t'>|
LinkText ==
  Str(<<"<", "a", " ", "h", "r", "e", "f", "=", "'", "h", "t", "t", "p",
        ":", "/", "/", "b", "/", "X", ".", "p", "d", "f", "#", "t", "'",
        ">">>)

\* |u="http:\/\/a\/x.pdf";|
ScriptText ==
  Str(<<"u", "=", "\"", "h", "t", "t", "p", ":", "\\", "/", "\\", "/",
        "a", "\\", "/", "x", ".", "p", "d", "f", "\"", ";">>)

\* |see http://a/docs/b.pdf, ok|
PlainText ==
  Str(<<"s", "e", "e", " ", "h", "t", "t", "p", ":", "/", "/", "a", "/",
        "d", "o", "c", "s", "/", "b", ".", "p", "d", "f", ",", " ", "o",
        "k">>)

\* |["http://a/x.pdf","http://b/X.pdf"]|
ArrayText ==
  Str(<<"[", "\"", "h", "t", "t", "p", ":", "/", "/", "a", "/", "x", ".",
        "p", "d", "f", "\"", ",", "\"", "h", "t", "t", "p", ":", "/",
        "/", "b", "/", "X", ".", "p", "d", "f", "\"", "]">>)

\* |{"u":"|
JsonOpen ==
  Str(<<"{", "\"", "u", "\"", ":", "\"">>)

\* |"}|
JsonClose ==
  Str(<<"\"", "}">>)

\* |har|
TextHar ==
  Str(<<"h", "a", "r">>)

\* |ab|
TextAb ==
  Str(<<"a", "b">>)

(***************************************************************************)
(* clean_url on bounded inputs                                             *)
(***************************************************************************)

\* the pieces the arguments of clean_url are put together from
CleanTokens ==
  { Str(<<"h", "t", "t", "p", ":">>), Str(<<"h", "t", "t", "p">>),
    Str(<<"/", "/">>), Str(<<"/">>), Str(<<"\\">>),
    Str(<<"%", "2", "F">>), Str(<<"%", "5", "C">>), Str(<<"#">>),
    Str(<<" ">>), Str(<<"\"">>), Str(<<",">>),
    Str(<<"a">>), Str(<<"n">>) }

\* an argument has at most MaxTokens pieces
MaxTokens == 3

CleanInputs == {Concat(parts) : parts \in SeqsUpTo(CleanTokens, MaxTokens)}

InitClean ==
  /\ stage = "input"
  /\ url \in CleanInputs
  /\ cleaned = << >>
  /\ recleaned = << >>
  /\ SessionInit
  /\ run = NoRun
  /\ NoFilterCall
  /\ NoExtractCall

\* cleaned = clean_url(url)
CallCleanUrl ==
  /\ stage = "input"
  /\ cleaned' = clean_url(url)
  /\ stage' = "cleaned"
  /\ UNCHANGED <<url, recleaned, session_vars, filter_vars, extract_vars>>

\* recleaned = clean_url(cleaned)
CallCleanUrlAgain ==
  /\ stage = "cleaned"
  /\ recleaned' = clean_url(cleaned)
  /\ stage' = "recleaned"
  /\ UNCHANGED <<url, cleaned, session_vars, filter_vars, extract_vars>>

NextClean == CallCleanUrl \/ CallCleanUrlAgain

SpecClean == InitClean /\ [][NextClean]_vars

(***************************************************************************)
(* filter_urls on bounded inputs                                           *)
(***************************************************************************)

\* the raw candidates the lists are made of
RawCandidates ==
  { UrlAX,
    UrlAXQuoted,
    UrlBX,
    UrlDocsB,
    UrlFtp,
    UrlDocsC }

\* keyword lists: <<include_keywords, exclude_keywords, custom_xpath_keywords>>
KeywordConfigs ==
  { << <<KwPdf>>, << >>, << >> >>,
    << <<KwPdf>>, <<KwDocs>>, << >> >>,
    << <<KwPdf>>, << >>, <<KwDocs>> >>,
    << <<KwPdfPadded>>, <<KwDocsUpper>>, << << >> >> >>,
    << <<KwDocs, KwPdf>>, << >>, << >> >>,
    << << >>, << >>, <<KwDocs>> >>,
    << <<KwPdf>>, <<KwXPdf, Str(<<" ">>)>>, <<KwDocs>> >>,
    << <<KwPdf>>, <<KwPdf>>, << >> >> }

\* a candidate list has at most MaxUrls elements
MaxUrls == 3

InitFilter ==
  /\ stage = "input"
  /\ all_urls \in SeqsUpTo(RawCandidates, MaxUrls)
  /\ keywords \in KeywordConfigs
  /\ results = << >>
  /\ reordered = << >>
  /\ reordered_results = << >>
  /\ SessionInit
  /\ run = NoRun
  /\ NoCleanCall
  /\ NoExtractCall

\* results = filter_urls(all_urls, include, exclude, custom)
CallFilterUrls ==
  /\ stage = "input"
  /\ IF filter_raises(all_urls)
     THEN results' = << >> /\ stage' = "raised"
     ELSE /\ results' =
               filter_urls(all_urls, keywords[1], keywords[2], keywords[3])
          /\ stage' = "filtered"
  /\ UNCHANGED <<all_urls, keywords, reordered, reordered_results,
                 session_vars, clean_vars, extract_vars>>

NextFilter == CallFilterUrls

SpecFilter == InitFilter /\ [][NextFilter]_vars

(***************************************************************************)
(* filter_urls called twice, on two orders of the same candidates          *)
(***************************************************************************)

\* the lists with the elements of the list urls, each as often as in urls:
\* what list(all_urls) can be for one set, or a caller's other order
Reorderings(urls) ==
  {[i \in 1..Len(urls) |-> urls[p[i]]] : p \in Orderings(1..Len(urls))}

\* reordered_results = filter_urls(reordered, include, exclude, custom),
\* for the candidates of the first call in some order
CallFilterUrlsReordered ==
  /\ stage = "filtered"
  /\ reordered' \in Reorderings(all_urls)
  /\ reordered_results' =
       filter_urls(reordered', keywords[1], keywords[2], keywords[3])
  /\ stage' = "reordered"
  /\ UNCHANGED <<all_urls, keywords, results,
                 session_vars, clean_vars, extract_vars>>

NextOrder == CallFilterUrls \/ CallFilterUrlsReordered

SpecOrder == InitFilter /\ [][NextOrder]_vars

(***************************************************************************)
(* extract_all_urls_from_har on bounded inputs, and filter_urls after it   *)
(***************************************************************************)

\* a dict with one or two keys
Obj1(k, x) == JObj([n \in {k} |-> x])
Obj2(k1, x1, k2, x2) == JObj([n \in {k1, k2} |-> IF n = k1 THEN x1 ELSE x2])

\* a header list with the one header {"name": ..., "value": ...}
Headers(name, value) ==
  JArr(<<Obj2("name", JStr(name), "value", JStr(value))>>)

\* a content object {"mimeType": ..., "text": ...}
Content(mime, text) == Obj2("mimeType", JStr(mime), "text", JStr(text))

\* an entry with a response that has this body alone
BodyEntry(mime, text) == Obj1("response", Obj1("content", Content(mime, text)))

\* the URLs that the JSON bodies carry with escaped slashes
SampleUrls ==
  { UrlAnnual,
    UrlAX,
    UrlQuery,
    UrlComma,
    UrlCommaPdf,
    UrlFragment,
    UrlDoubled }

\* u as a JSON serialiser writes it when it escapes each slash once
SinglyEscaped(u) == Replace(u, SL, Str(<<"\\", "/">>))

\* the text of a JSON body that holds the string u: {"u":"<u>"}
JsonText(u) == JsonOpen \o u \o JsonClose

\* an entry whose response has a JSON-labelled body holding u, singly escaped
EscapedJsonEntry(u) ==
  BodyEntry(MimeJson, JsonText(SinglyEscaped(u)))

\* a request URL alone
UrlEntry == Obj1("request", Obj1("url", JStr(UrlAX)))

\* a request URL and escaped POST data
PostEntry ==
  Obj1("request",
       Obj2("url", JStr(UrlDocsC),
            "postData",
            Obj1("text", JStr(PostText))))

\* a request header
RefererEntry ==
  Obj1("request",
       Obj1("headers", Headers(RefererName, RefererValue)))

\* a redirect, with a table cell in an HTML body
RedirectEntry ==
  Obj1("response",
       Obj2("headers", Headers(LocationName, UrlDocsC),
            "content",
            Content(MimeHtml, CellText)))

\* a link in an HTML body
LinkEntry == BodyEntry(MimeHtmlUpper, LinkText)

\* a script body
ScriptEntry ==
  BodyEntry(MimeScript, ScriptText)

\* a body of another type
PlainEntry == BodyEntry(MimePlain, PlainText)

\* a body without a type that starts as JSON
ArrayEntry ==
  BodyEntry(<< >>, ArrayText)

\* an entry whose request URL is a number
NumberUrlEntry == Obj1("request", Obj1("url", JNum(5)))

\* an entry with a request header whose value is a number
NumberHeaderEntry ==
  Obj1("request", Obj1("headers", JArr(<<Obj1("value", JNum(5))>>)))

\* an entry whose response body is a list
ListBodyEntry ==
  Obj1("response", Obj1("content", Obj1("text", JArr(<<JStr(UrlAX)>>))))

\* entries that are not of the shape of a capture's entry
MisshapenEntries ==
  { JNum(5),
    NumberUrlEntry,
    NumberHeaderEntry,
    ListBodyEntry,
    Obj1("request", JNull),
    Obj1("response", Obj1("headers", JNum(1))) }

\* the entries captures are made of
EntrySamples ==
  { UrlEntry, PostEntry, RefererEntry, RedirectEntry, LinkEntry, ScriptEntry,
    PlainEntry, ArrayEntry, EmptyObj }
    \cup MisshapenEntries
    \cup {EscapedJsonEntry(u) : u \in SampleUrls}

\* a capture has at most MaxEntries entries
MaxEntries == 1

\* a capture with the given entries
Capture(entries) == Obj1("log", Obj1("entries", JArr(entries)))

Captures ==
  {Capture(es) : es \in SeqsUpTo(EntrySamples, MaxEntries) \ {<< >>}}

\* documents that are not a capture with a non-empty list of entries
Deviant ==
  { Invalid,
    Unloadable,
    EmptyArr,
    JStr(TextHar),
    JNum(1),
    JNull,
    EmptyObj,
    Obj1("log", JNum(1)),
    Obj1("log", JNull),
    Obj1("log", EmptyArr),
    Obj1("log", EmptyObj),
    Capture(<< >>),
    Obj1("log", Obj1("entries", JNull)),
    Obj1("log", Obj1("entries", EmptyObj)),
    Obj1("log", Obj1("entries", JNum(7))),
    Obj1("log", Obj1("entries", JStr(TextAb))),
    Obj1("log", Obj1("entries", Obj1("0", EmptyObj))) }

\* the documents, each given as json.loads reads it
Documents == Captures \cup Deviant

\* the keyword lists filter_urls is called with after an extraction
ExtractKeywords ==
  { << <<KwPdf>>, << >>, << >> >>,
    << <<KwPdf>>, << >>, <<KwDocs>> >>,
    << <<KwDocs, KwPdf>>, <<KwXPdf>>, << >> >> }

InitExtract ==
  /\ stage = "har"
  /\ har_content \in Documents
  /\ extracted = Returned({}, "")
  /\ all_urls = << >>
  /\ keywords \in ExtractKeywords
  /\ results = << >>
  /\ reordered = << >>
  /\ reordered_results = << >>
  /\ SessionInit
  /\ run = NoRun
  /\ NoCleanCall

\* the end of the call with the outcome out: an exception, or the list
\* made of the set, list(all_urls), in some order of iteration
ReturnList(out) ==
  IF out.raised
  THEN stage' = "raised" /\ all_urls' = << >>
  ELSE stage' = "input" /\ all_urls' \in Orderings(out.urls)

\* all_urls = extract_all_urls_from_har(har_content)
CallExtract ==
  /\ stage = "har"
  /\ extracted' = extract_all_urls_from_har(har_content)
  /\ ReturnList(extracted')
  /\ UNCHANGED <<har_content, keywords, results, reordered,
                 reordered_results, session_vars, clean_vars>>

NextExtract == CallExtract \/ CallFilterUrls

SpecExtract == InitExtract /\ [][NextExtract]_vars

(***************************************************************************)
(* The page                                                                *)
(***************************************************************************)

\* the documents a user uploads
Uploads ==
  { Invalid, Unloadable, EmptyObj, Capture(<< >>),
    EmptyArr, Capture(<<JNum(5)>>),
    Capture(<<UrlEntry>>),
    Capture(<<PostEntry>>),
    Capture(<<RedirectEntry>>),
    Capture(<<ArrayEntry>>),
    Capture(<<ScriptEntry, EmptyObj>>),
    Capture(<<NumberUrlEntry>>) }

\* the texts of the three keyword inputs: <<include, exclude, custom>>
KeywordInputs ==
  { <<KwPdf, << >>, << >>>>,
    <<KwPdf, << >>, InputDocs>>,
    <<InputPdfDocs, InputExclude, Str(<<" ">>)>> }

Init ==
  /\ SessionInit
  /\ run = NoRun
  /\ stage = "page"
  /\ NoCleanCall
  /\ NoFilterCall
  /\ NoExtractCall

\* filter_urls on the keyword lists parsed from the page's inputs
filter_with_inputs(urls, inputs) ==
  filter_urls(urls, parse_keywords(inputs[1]), parse_keywords(inputs[2]),
              parse_custom_keywords(inputs[3]))

\* the record of a script run in which a button was pressed
RunOf(action, out, filter_invoked) ==
  [ action |-> action, raised |-> out.raised, error |-> out.error,
    filter_invoked |-> filter_invoked ]

\* Streamlit ends a script run at an access of st.session_state when a
\* rerun or stop request is pending (the user touched a widget or pressed
\* Stop while the script ran).  The accesses of the Extract handler are its
\* three assignments; "no" is a run that no request ends
ExtractEnds == {"raw_links", "filtered_links", "har_loaded", "no"}

\* the Extract handler once extract_all_urls_from_har has ended with out.
\* An exception ends the script run before the first assignment, and so
\* does a request at that assignment.  Otherwise the return value, the
\* empty one after st.error included, is stored and filtered: an exception
\* of filter_urls ends the run after raw_links is assigned, and so does a
\* request at the assignment of filtered_links; a request at the
\* assignment of har_loaded leaves that key as it was
ExtractWith(out) ==
  \/ /\ UNCHANGED <<raw_links, filtered_links, har_loaded>>
     /\ run' = RunOf("extract", out, FALSE)
  \/ /\ ~out.raised
     /\ raw_links' \in Orderings(out.urls)
     /\ IF filter_raises(raw_links')
        THEN /\ UNCHANGED <<filtered_links, har_loaded>>
             /\ run' = RunOf("extract", Raised, TRUE)
        ELSE /\ run' = RunOf("extract", out, TRUE)
             /\ \E inputs \in KeywordInputs :
                  LET filtered == filter_with_inputs(raw_links', inputs)
                  IN  \E ended \in ExtractEnds \ {"raw_links"} :
                        IF ended = "filtered_links"
                        THEN UNCHANGED <<filtered_links, har_loaded>>
                        ELSE /\ filtered_links' = filtered
                             /\ har_loaded' = (har_loaded \/ ended = "no")

\* the button "Extract PDF Links", with the document doc uploaded and the
\* texts of KeywordInputs in the keyword inputs
Extract(doc) ==
  /\ stage = "page"
  /\ ExtractWith(extract_all_urls_from_har(doc))
  /\ UNCHANGED <<stage, clean_vars, filter_vars, extract_vars>>

\* the accesses of the Re-apply Filters handler: the read of raw_links for
\* the call of filter_urls, and the assignment of its result
RefilterEnds == {"raw_links", "filtered_links", "no"}

\* the button "Re-apply Filters", which the page shows with the results; an
\* exception of filter_urls, or a request that ends the run at one of the
\* two accesses, ends the run before the assignment
Refilter(inputs, ended) ==
  /\ stage = "page"
  /\ har_loaded
  /\ filtered_links # << >>
  /\ IF ended = "raw_links"
     THEN /\ UNCHANGED filtered_links
          /\ run' = RunOf("refilter", Returned({}, ""), FALSE)
     ELSE IF filter_raises(raw_links)
     THEN /\ UNCHANGED filtered_links
          /\ run' = RunOf("refilter", Raised, TRUE)
     ELSE IF ended = "filtered_links"
     THEN /\ UNCHANGED filtered_links
          /\ run' = RunOf("refilter", Returned({}, ""), TRUE)
     ELSE /\ filtered_links' = filter_with_inputs(raw_links, inputs)
          /\ run' = RunOf("refilter", Returned({}, ""), TRUE)
  /\ UNCHANGED <<raw_links, har_loaded, stage, clean_vars, filter_vars,
                 extract_vars>>

\* the debug section shows the first DebugLimit raw links
DebugLimit == 500

\* the texts of the search input of the debug section
SearchTerms == {<< >>, KwPdf}

\* the debug section of a loaded session raises: with a search term,
\* u.lower() for a raw link that is not a str (AttributeError); without
\* one, clean_url for one of the first DebugLimit raw links
debug_raises(search_term) ==
  /\ har_loaded
  /\ IF search_term # << >>
     THEN \E i \in 1..Len(raw_links) : ~IsStr(raw_links[i])
     ELSE \E i \in 1..Len(raw_links) :
            i <= DebugLimit /\ clean_url_raises(raw_links[i])

\* the keys of the session state that the script sets when they are missing
SessionKeys == {"raw_links", "filtered_links", "har_loaded"}

\* the button "Clear All": the keys of the session state are deleted one by
\* one, in the order st.session_state.keys() gives them, and the next run
\* of the script sets the deleted ones again.  Each deletion is an access
\* at which a pending request ends the run: deleted is the set of keys
\* deleted by then, every key when no request ends the run.  The script
\* reaches the button after the debug section: when that raises the button
\* is not there
ClearAll(search_term, deleted) ==
  /\ stage = "page"
  /\ ~debug_raises(search_term)
  /\ raw_links' = IF "raw_links" \in deleted THEN << >> ELSE raw_links
  /\ filtered_links' =
       IF "filtered_links" \in deleted THEN << >> ELSE filtered_links
  /\ har_loaded' = IF "har_loaded" \in deleted THEN FALSE ELSE har_loaded
  /\ run' = RunOf("clear", Returned({}, ""), FALSE)
  /\ UNCHANGED <<stage, clean_vars, filter_vars, extract_vars>>

Next ==
  \/ \E doc \in Uploads : Extract(doc)
  \/ \E inputs \in KeywordInputs, ended \in RefilterEnds :
       Refilter(inputs, ended)
  \/ \E search_term \in SearchTerms, deleted \in SUBSET SessionKeys :
       ClearAll(search_term, deleted)

Spec == Init /\ [][Next]_vars

(***************************************************************************)
(* Properties of clean_url, checked under SpecClean                        *)
(***************************************************************************)

\* C1: clean_url is idempotent: cleaning the result of clean_url again
\* gives that result, clean_url(clean_url(s)) = clean_url(s).
C1_Idempotent == stage = "recleaned" => recleaned = cleaned

\* C2: the result of clean_url is the empty string or begins with http://
\* or https://.
C2_HttpPrefix ==
  stage # "input" =>
    \/ cleaned = << >>
    \/ StartsWith(cleaned, Str(<<"h", "t", "t", "p", ":", "/", "/">>))
    \/ StartsWith(cleaned, Str(<<"h", "t", "t", "p", "s", ":", "/", "/">>))

\* C3, as the claim states it: when the string reached after the cleanup
\* steps does not contain "http", clean_url returns the empty string.
C3_RejectsWithoutHttp ==
  stage # "input" /\ ~Contains(cleanup(url), HTTP) => cleaned = << >>

\* C3, amended: when the string reached after the cleanup steps does not
\* contain "http" and does not start with two slashes, clean_url returns
\* the empty string.
C3_RejectsWithoutHttpOrSlashes ==
  stage # "input"
    /\ ~Contains(cleanup(url), HTTP)
    /\ ~StartsWith(cleanup(url), Str(<<"/", "/">>))
  => cleaned = << >>

\* C3: clean_url has been called on an argument that is not empty and
\* whose cleanup has neither "http" in it nor two slashes at its start.
C3_Witness ==
  /\ stage = "cleaned"
  /\ cleanup(url) # << >>
  /\ ~Contains(cleanup(url), HTTP)
  /\ ~StartsWith(cleanup(url), Str(<<"/", "/">>))
  /\ cleaned = << >>

\* C4: a non-empty result of clean_url contains no backslash.
C4_NoBackslash ==
  stage # "input" /\ cleaned # << >> => ~Contains(cleaned, BSL)

\* C4: clean_url has returned a non-empty result for an argument that
\* still had a backslash in it when the protocol test was made.
C4_Witness ==
  /\ stage = "cleaned"
  /\ Contains(cleanup(url), BSL)
  /\ cleaned # << >>

(***************************************************************************)
(* Properties of filter_urls, checked under SpecFilter                     *)
(***************************************************************************)

\* C5: the list filter_urls returns has no two results with the same URL.
C5_NoDuplicates ==
  stage = "filtered" =>
    \A i, j \in 1..Len(results) : results[i][1] = results[j][1] => i = j

\* C5: two different raw candidates of the list have the same non-empty
\* clean_url, and a result has that URL.
C5_Witness ==
  /\ stage = "filtered"
  /\ \E i, j \in 1..Len(all_urls) :
       /\ all_urls[i] # all_urls[j]
       /\ clean_url(all_urls[i]) = clean_url(all_urls[j])
       /\ \E k \in 1..Len(results) : results[k][1] = clean_url(all_urls[i])

\* the exclude keywords as they are compared: stripped, lower-cased, the
\* empty ones left out
ExcludeWords ==
  {Lower(Strip(keywords[2][k])) : k \in 1..Len(keywords[2])} \ {<< >>}

\* the raw candidate at position i of all_urls is excluded: its clean_url,
\* lower-cased, contains an exclude keyword
Excluded(i) ==
  \E w \in ExcludeWords : Contains(Lower(clean_url(all_urls[i])), w)

\* C6: exclude has priority: no result has the URL of a candidate whose
\* lower-cased clean_url contains an exclude keyword.
C6_ExcludeWins ==
  stage = "filtered" =>
    \A i \in 1..Len(all_urls) :
      Excluded(i) =>
        \A k \in 1..Len(results) : results[k][1] # clean_url(all_urls[i])

\* C6: a candidate of the list contains an exclude keyword and an include
\* keyword as well, and another candidate has been accepted.
C6_Witness ==
  /\ stage = "filtered"
  /\ results # << >>
  /\ \E i \in 1..Len(all_urls) :
       /\ Excluded(i)
       /\ \E k \in 1..Len(keywords[1]) :
            /\ Lower(Strip(keywords[1][k])) # << >>
            /\ Contains(Lower(clean_url(all_urls[i])),
                        Lower(Strip(keywords[1][k])))

\* the lower-cased final path segment of the URL of a result
Segment(result) == Lower(AfterLast(result[1], Ch("/")))

\* a <= b on str
StrLeq(a, b) == a = b \/ StrLess(a, b)

\* C7: the list filter_urls returns is sorted: the lower-cased final path
\* segment of a result is less than or equal to that of the next result.
C7_Sorted ==
  stage = "filtered" =>
    \A i \in 1..(Len(results) - 1) :
      StrLeq(Segment(results[i]), Segment(results[i + 1]))

\* C7: filter_urls has returned two results or more whose order of
\* acceptance was not the sorted one.
C7_Witness ==
  /\ stage = "filtered"
  /\ Len(results) >= 2
  /\ \E i, j \in 1..Len(all_urls) :
       /\ i < j
       /\ \E a, b \in 1..Len(results) :
            /\ a < b
            /\ results[a][1] = clean_url(all_urls[j])
            /\ results[b][1] = clean_url(all_urls[i])
            /\ Segment(results[a]) # Segment(results[b])

\* the keywords of the list kws as they are compared: stripped and
\* lower-cased, the empty ones left out, in the order of the list
Compared(kws) ==
  SelectSeq([k \in 1..Len(kws) |-> Lower(Strip(kws[k]))],
            LAMBDA w : w # << >>)

\* the combined list: the include keywords followed by the custom keywords
IncludeWords == Compared(keywords[1]) \o Compared(keywords[3])

\* the positions of the combined list whose keyword is a substring of the
\* lower-cased URL u
Matching(u) ==
  {k \in 1..Len(IncludeWords) : Contains(Lower(u), IncludeWords[k])}

\* the URL u matches a custom keyword and no include keyword
CustomOnly(u) ==
  /\ Matching(u) # {}
  /\ \A k \in Matching(u) : k > Len(Compared(keywords[1]))

\* the non-empty clean_url c of a candidate, when no exclude keyword is in
\* it, is the URL of a result if and only if it matches a keyword
KeptIfMatching(c) ==
  c # << >> /\ (\A w \in ExcludeWords : ~Contains(Lower(c), w)) =>
    ( Matching(c) # {} <=> \E k \in 1..Len(results) : results[k][1] = c )

\* C11: the keyword recorded for a result is the first keyword of the
\* combined list (include, then custom; stripped, lower-cased, empty ones
\* dropped) that is a substring of the lower-cased URL; a URL that matches
\* no keyword of the list is not in the results, and a candidate that is not
\* excluded and matches a keyword, be it a custom one only, is kept.
C11_FirstKeyword ==
  stage = "filtered" =>
    /\ \A i \in 1..Len(results) :
         \E k \in Matching(results[i][1]) :
           /\ results[i][2] = IncludeWords[k]
           /\ \A j \in Matching(results[i][1]) : k <= j
    /\ \A i \in 1..Len(all_urls) : KeptIfMatching(clean_url(all_urls[i]))

\* C11: one result matches an include keyword and a later keyword of the
\* combined list, and is recorded with the earlier one; another result
\* matches a custom keyword only and is recorded with it.
C11_Witness ==
  /\ stage = "filtered"
  /\ \E i \in 1..Len(results) :
       /\ Cardinality({IncludeWords[k] : k \in Matching(results[i][1])}) >= 2
       /\ results[i][2] = IncludeWords[1]
  /\ \E i \in 1..Len(results) :
       /\ CustomOnly(results[i][1])
       /\ results[i][2] \in {Compared(keywords[3])[k] :
                               k \in 1..Len(Compared(keywords[3]))}

(***************************************************************************)
(* Properties of two calls of filter_urls, checked under SpecOrder         *)
(***************************************************************************)

\* C12: the order of the candidates has no effect: filter_urls returns the
\* same list of (url, keyword) pairs for the same candidates in another
\* order, results with equal lower-cased final path segments included.
C12_OrderIndependent ==
  stage = "reordered" => reordered_results = results

(***************************************************************************)
(* Properties of extract_all_urls_from_har, checked under SpecExtract      *)
(***************************************************************************)

\* the document is a parseable capture with a non-empty list of entries
IsCapture(doc) ==
  /\ IsObj(doc)
  /\ "log" \in DOMAIN doc.v
  /\ IsObj(doc.v["log"])
  /\ "entries" \in DOMAIN doc.v["log"].v
  /\ doc.v["log"].v["entries"].t = "arr"
  /\ doc.v["log"].v["entries"].v # << >>

\* C8: on a document that is not a parseable capture with a non-empty list
\* of entries, extract_all_urls_from_har fails softly: it reports an error
\* and returns no candidate, and no exception leaves it.
C8_FailSoft ==
  stage # "har" /\ ~IsCapture(har_content) =>
    /\ ~extracted.raised
    /\ extracted.error # ""
    /\ extracted.urls = {}

\* the capture has the entry e
HasEntry(doc, e) ==
  /\ IsCapture(doc)
  /\ \E i \in 1..Len(doc.v["log"].v["entries"].v) :
       doc.v["log"].v["entries"].v[i] = e

\* the number of results with the URL u
Count(u) == Cardinality({k \in 1..Len(results) : results[k][1] = u})

\* C10 as stated: a URL with singly escaped slashes in a JSON-labelled
\* response body gives exactly one result, the unescaped URL with the
\* include keyword that matches; a capture with that entry alone gives no
\* other result.
C10_OneResult ==
  stage = "filtered" /\ keywords[1] = <<KwPdf>> /\ keywords[2] = << >> =>
    \A u \in SampleUrls :
      /\ HasEntry(har_content, EscapedJsonEntry(u)) =>
           /\ Count(u) = 1
           /\ \A k \in 1..Len(results) :
                results[k][1] = u => results[k][2] = KwPdf
      /\ har_content = Capture(<<EscapedJsonEntry(u)>>) => Len(results) = 1

\* u has no character at which the JSON patterns for escaped slashes end
\* a match: no whitespace and none of " ' < > , ; ] } )
Unbroken(u) ==
  \A i \in 1..Len(u) : ~IsSpace(u[i]) /\ u[i] \notin StopJsonEscaped

\* the sample URLs that the patterns match whole, that clean_url leaves as
\* they are, and that have the keyword .pdf in their lower-cased text
UnbrokenUrls ==
  {u \in SampleUrls :
     Unbroken(u) /\ clean_url(u) = u /\ Contains(Lower(u), KwPdf)}

\* C10: a URL that has none of the characters the JSON patterns stop at,
\* that clean_url leaves unchanged and that has the include keyword, when
\* it appears with singly escaped slashes in a JSON-labelled response body,
\* gives exactly one result, the unescaped URL with that keyword; a capture
\* with that entry alone gives no other result.
C10_OneResultUnbroken ==
  stage = "filtered" /\ keywords[1] = <<KwPdf>> /\ keywords[2] = << >> =>
    \A u \in UnbrokenUrls :
      /\ HasEntry(har_content, EscapedJsonEntry(u)) =>
           /\ Count(u) = 1
           /\ \A k \in 1..Len(results) :
                results[k][1] = u => results[k][2] = KwPdf
      /\ har_content = Capture(<<EscapedJsonEntry(u)>>) => Len(results) = 1

\* C10: the capture of the scenario has been scanned and filtered: the
\* URL is one the patterns match whole, the escaped form of the URL is the
\* raw candidate, the unescaped URL the one result.
C10_Witness ==
  /\ stage = "filtered"
  /\ keywords[1] = <<KwPdf>>
  /\ keywords[2] = << >>
  /\ UrlAnnual \in UnbrokenUrls
  /\ har_content =
       Capture(<<EscapedJsonEntry(UrlAnnual)>>)
  /\ extracted.urls =
       {SinglyEscaped(UrlAnnual)}
  /\ results =
       << <<UrlAnnual, KwPdf>> >>

(***************************************************************************)
(* Properties of the page, checked under Spec                              *)
(***************************************************************************)

\* C9: when extract_all_urls_from_har has reported a fatal error, the
\* Extract handler does not go on: filter_urls is not invoked and the
\* session is not marked as loaded.
C9_StopsAfterError ==
  run.action = "extract" /\ run.error # "" =>
    ~run.filter_invoked /\ ~har_loaded

\* the URL u is the clean_url of a str held in raw_links
FromRaw(u) ==
  \E j \in 1..Len(raw_links) :
    IsStr(raw_links[j]) /\ clean_url(raw_links[j]) = u

\* C13: the session store is consistent after every run of the script:
\* each URL of filtered_links is the clean_url of a str of raw_links, and
\* after Clear All the store is the one a session starts with.
C13_StoreConsistent ==
  /\ \A i \in 1..Len(filtered_links) : FromRaw(filtered_links[i][1])
  /\ run.action = "clear" => SessionInit

=============================================================================
